---------------------------- MODULE Spec2Model ----------------------------
(***************************************************************************)
(* Gym membership pricing engine (src/gym_membership.py).                  *)
(*                                                                         *)
(* Currency amounts are Python floats in the source.  They are modelled as *)
(* exact fixed-point integers counting 1/Scale of a dollar; Scale = 10^5   *)
(* makes every 10% and 15% share of the amounts that occur an integer, so  *)
(* no step of the arithmetic truncates.  Binary floating-point rounding    *)
(* (of the order of 1e-14) is not modelled.                                *)
(*                                                                         *)
(* Python values that may have any type are records [type, val]; Optional  *)
(* values are sequences of length 0 (None) or 1.                           *)
(***************************************************************************)
EXTENDS Integers, Sequences, FiniteSets, TLC

VARIABLES membership_plans,     \* self.membership_plans: name -> MembershipPlan
          additional_features,  \* self.additional_features: name -> AdditionalFeature
          call,                 \* the operation performed last, with its arguments
          ret,                  \* what that call returned or raised
          app                   \* GymMembershipApp.run(): position, locals, user input

vars == <<membership_plans, additional_features, call, ret, app>>

-----------------------------------------------------------------------------
(* Bounds of the model *)

MaxFeatures == 3        \* longest feature list passed to a calculation
MaxValidated == 2       \* longest feature list passed to validate_features
MaxMembersInput == 12   \* largest member count passed to the engine
CentWindow == 2         \* cents explored on either side of a round amount

-----------------------------------------------------------------------------
(* Currency *)

Scale == 10 ^ 5

Dollars(d, c) == (d * 100 + c) * (Scale \div 100)

PercentBase == 10 * 10

\* x * rate for a float rate written in hundredths (0.10 is 10, 0.15 is 15)
TimesRate(x, hundredths) == (x * hundredths) \div PercentBase

-----------------------------------------------------------------------------
(* Python values *)

None == << >>
Some(v) == << v >>

PremiumFeatureLevel == {"NONE", "EXCLUSIVE_FACILITIES", "SPECIALIZED_TRAINING"}

\* isinstance(v, int): bool is a subclass of int
IsInstanceInt(v) == v.type \in {"int", "bool"}

\* isinstance(v, list)
IsInstanceList(v) == v.type = "list"

-----------------------------------------------------------------------------
(* Catalog constants of GymMembershipManager *)

MEMBERSHIP_PLANS ==
    ("Basic"   :> [name |-> "Basic",   base_cost |-> Dollars(29, 99), available |-> TRUE]) @@
    ("Premium" :> [name |-> "Premium", base_cost |-> Dollars(59, 99), available |-> TRUE]) @@
    ("Family"  :> [name |-> "Family",  base_cost |-> Dollars(99, 99), available |-> TRUE])

ADDITIONAL_FEATURES ==
    ("Personal Training"      :> [name |-> "Personal Training",      cost |-> Dollars(50, 0), available |-> TRUE]) @@
    ("Group Classes"          :> [name |-> "Group Classes",          cost |-> Dollars(30, 0), available |-> TRUE]) @@
    ("Nutritional Consulting" :> [name |-> "Nutritional Consulting", cost |-> Dollars(40, 0), available |-> TRUE])

SPECIAL_OFFER_DISCOUNTS == << <<Dollars(200, 0), Dollars(20, 0)>>,
                              <<Dollars(400, 0), Dollars(50, 0)>> >>

GROUP_DISCOUNT_THRESHOLD == 2
GROUP_DISCOUNT_PERCENTAGE == 10
PREMIUM_SURCHARGE_PERCENTAGE == 15

MinMembers == 1
MaxMembers == 10

-----------------------------------------------------------------------------
(* Inputs *)

PlanNames == DOMAIN MEMBERSHIP_PLANS
FeatureNames == DOMAIN ADDITIONAL_FEATURES

\* plan names a caller may pass: the keys, two names that are not keys (one
\* of them made of the text of another message), and a feature's name
PlanNameInputs ==
    PlanNames \cup {"InvalidPlan", "Gold' is currently unavailable.", "Personal Training"}
FeatureNameInputs == FeatureNames \cup {"InvalidFeature"}

SeqsUpTo(S, n) == UNION {[1..k -> S] : k \in 0..n}

FeatureListInputs == SeqsUpTo(FeatureNameInputs, MaxFeatures)

\* what a caller may pass as feature_names: a list, or a str, a tuple, None
FeatureArgInputs ==
    {[type |-> "list", val |-> l] : l \in SeqsUpTo(FeatureNameInputs, MaxValidated)} \cup
    {[type |-> "str", val |-> <<"PersonalTraining">>],
     [type |-> "tuple", val |-> <<"Personal Training">>],
     [type |-> "NoneType", val |-> <<>>]}

\* what a caller may pass as num_members; a float's val counts tenths
NumMembersInputs ==
    {[type |-> "int", val |-> n] : n \in -1..MaxMembersInput} \cup
    {[type |-> "bool", val |-> n] : n \in 0..1} \cup
    {[type |-> "float", val |-> t] : t \in {5, 50, 55, 115}} \cup
    {[type |-> "str", val |-> 0], [type |-> "NoneType", val |-> 0]}

-----------------------------------------------------------------------------
(* Catalog queries and validation *)

\* the values of a dict come in insertion order
PlanOrder == <<"Basic", "Premium", "Family">>
FeatureOrder == <<"Personal Training", "Group Classes", "Nutritional Consulting">>

IsAvailablePlan(p) == membership_plans[p].available
IsAvailableFeature(f) == additional_features[f].available

\* variant: the flag is not looked at
get_available_membership_plans_unfiltered ==
    [i \in 1..Len(PlanOrder) |-> membership_plans[PlanOrder[i]]]

get_available_membership_plans ==
    LET names == SelectSeq(PlanOrder, IsAvailablePlan)
    IN  [i \in 1..Len(names) |-> membership_plans[names[i]]]

get_available_features ==
    LET names == SelectSeq(FeatureOrder, IsAvailableFeature)
    IN  [i \in 1..Len(names) |-> additional_features[names[i]]]

Result(is_valid, error_msg) == [raised |-> FALSE, is_valid |-> is_valid, error_msg |-> error_msg]

\* variant: the availability flag is not looked at
validate_membership_plan_ignoring_flag(plan_name) ==
    IF plan_name \notin DOMAIN membership_plans
    THEN Result(FALSE, Some("Membership plan '" \o plan_name \o "' does not exist."))
    ELSE Result(TRUE, None)

validate_membership_plan(plan_name) ==
    IF plan_name \notin DOMAIN membership_plans
    THEN Result(FALSE, Some("Membership plan '" \o plan_name \o "' does not exist."))
    ELSE IF ~membership_plans[plan_name].available
    THEN Result(FALSE, Some("Membership plan '" \o plan_name \o "' is currently unavailable."))
    ELSE Result(TRUE, None)

RECURSIVE validate_features_from_unreported(_, _)
\* variant: an unknown name is reported with the message of an unavailable one
validate_features_from_unreported(names, i) ==
    IF i > Len(names) THEN Result(TRUE, None)
    ELSE IF names[i] \notin DOMAIN additional_features
    THEN Result(FALSE, Some("Additional feature '" \o names[i] \o "' is currently unavailable."))
    ELSE IF ~additional_features[names[i]].available
    THEN Result(FALSE, Some("Additional feature '" \o names[i] \o "' is currently unavailable."))
    ELSE validate_features_from_unreported(names, i + 1)

RECURSIVE validate_features_from(_, _)
\* the for loop of validate_features, from position i on
validate_features_from(names, i) ==
    IF i > Len(names) THEN Result(TRUE, None)
    ELSE IF names[i] \notin DOMAIN additional_features
    THEN Result(FALSE, Some("Additional feature '" \o names[i] \o "' does not exist."))
    ELSE IF ~additional_features[names[i]].available
    THEN Result(FALSE, Some("Additional feature '" \o names[i] \o "' is currently unavailable."))
    ELSE validate_features_from(names, i + 1)

validate_features(feature_names) ==
    IF ~IsInstanceList(feature_names)
    THEN Result(FALSE, Some("Features must be provided as a list."))
    ELSE validate_features_from(feature_names.val, 1)

\* variant: one message for every rejected member count
validate_num_members_one_message(num_members) ==
    IF ~IsInstanceInt(num_members) \/ num_members.val < MinMembers
                                   \/ num_members.val > MaxMembers
    THEN Result(FALSE, Some("Number of members must be an integer from 1 to 10."))
    ELSE Result(TRUE, None)

\* variant: the upper bound itself is rejected (>= for >)
validate_num_members_exclusive_max(num_members) ==
    IF ~IsInstanceInt(num_members)
    THEN Result(FALSE, Some("Number of members must be an integer."))
    ELSE IF num_members.val < MinMembers
    THEN Result(FALSE, Some("Number of members must be at least 1."))
    ELSE IF num_members.val >= MaxMembers
    THEN Result(FALSE, Some("Number of members cannot exceed 10."))
    ELSE Result(TRUE, None)

validate_num_members(num_members) ==
    IF ~IsInstanceInt(num_members)
    THEN Result(FALSE, Some("Number of members must be an integer."))
    ELSE IF num_members.val < MinMembers
    THEN Result(FALSE, Some("Number of members must be at least 1."))
    ELSE IF num_members.val > MaxMembers
    THEN Result(FALSE, Some("Number of members cannot exceed 10."))
    ELSE Result(TRUE, None)

-----------------------------------------------------------------------------
(* The engine with its catalog: availability changes and validation calls *)

NoCall == [op |-> "none"]
NoRet == [raised |-> FALSE]

\* no GymMembershipApp has been created
NoApp == [pc |-> "none"]

Init ==
    /\ membership_plans = MEMBERSHIP_PLANS
    /\ additional_features = ADDITIONAL_FEATURES
    /\ call = NoCall
    /\ ret = NoRet
    /\ app = NoApp

\* manager.membership_plans[p].available = not available
TogglePlan ==
    \E p \in DOMAIN membership_plans :
        /\ membership_plans' = [membership_plans EXCEPT ![p].available = ~@]
        /\ call' = [op |-> "toggle_plan", name |-> p]
        /\ ret' = NoRet
        /\ UNCHANGED <<additional_features, app>>

\* manager.additional_features[f].available = not available
ToggleFeature ==
    \E f \in DOMAIN additional_features :
        /\ additional_features' = [additional_features EXCEPT ![f].available = ~@]
        /\ call' = [op |-> "toggle_feature", name |-> f]
        /\ ret' = NoRet
        /\ UNCHANGED <<membership_plans, app>>

ValidateMembershipPlan ==
    \E plan_name \in PlanNameInputs :
        /\ call' = [op |-> "validate_membership_plan", plan_name |-> plan_name]
        /\ ret' = validate_membership_plan(plan_name)
        /\ UNCHANGED <<membership_plans, additional_features, app>>

ValidateFeatures ==
    \E feature_names \in FeatureArgInputs :
        /\ call' = [op |-> "validate_features", feature_names |-> feature_names]
        /\ ret' = validate_features(feature_names)
        /\ UNCHANGED <<membership_plans, additional_features, app>>

ValidateNumMembers ==
    \E num_members \in NumMembersInputs :
        /\ call' = [op |-> "validate_num_members", num_members |-> num_members]
        /\ ret' = validate_num_members(num_members)
        /\ UNCHANGED <<membership_plans, additional_features, app>>

Next ==
    \/ TogglePlan
    \/ ToggleFeature
    \/ ValidateMembershipPlan
    \/ ValidateFeatures
    \/ ValidateNumMembers

Spec == Init /\ [][Next]_vars

-----------------------------------------------------------------------------
(* Cost calculation *)

calculate_base_cost(plan_name) == membership_plans[plan_name].base_cost

RECURSIVE features_cost_loop(_, _, _)
\* the for loop of calculate_features_cost: total so far, next position i
features_cost_loop(feature_names, i, total) ==
    IF i > Len(feature_names) THEN total
    ELSE features_cost_loop(feature_names, i + 1,
                            total + additional_features[feature_names[i]].cost)

\* variant: every selected name is priced once
calculate_features_cost_once_per_name(feature_names) ==
    LET names == {feature_names[i] : i \in 1..Len(feature_names)}
    IN  features_cost_loop(SelectSeq(FeatureOrder, LAMBDA f : f \in names), 1, 0)

calculate_features_cost(feature_names) == features_cost_loop(feature_names, 1, 0)

\* variant: the discount starts above the threshold (<= for <)
calculate_group_discount_above_threshold(base_total, num_members) ==
    IF num_members <= GROUP_DISCOUNT_THRESHOLD
    THEN <<base_total, 0>>
    ELSE LET discount_amount == TimesRate(base_total, GROUP_DISCOUNT_PERCENTAGE)
             discounted_cost == base_total - discount_amount
         IN  <<discounted_cost, discount_amount>>

\* variant: the discount is taken once per member after the first
calculate_group_discount_per_member(base_total, num_members) ==
    IF num_members < GROUP_DISCOUNT_THRESHOLD
    THEN <<base_total, 0>>
    ELSE LET discount_amount ==
                 TimesRate(base_total, GROUP_DISCOUNT_PERCENTAGE) * (num_members - 1)
             discounted_cost == base_total - discount_amount
         IN  <<discounted_cost, discount_amount>>

\* returns <<discounted_cost, discount_amount>>
calculate_group_discount(base_total, num_members) ==
    IF num_members < GROUP_DISCOUNT_THRESHOLD
    THEN <<base_total, 0>>
    ELSE LET discount_amount == TimesRate(base_total, GROUP_DISCOUNT_PERCENTAGE)
             discounted_cost == base_total - discount_amount
         IN  <<discounted_cost, discount_amount>>

\* Python's order on tuples of numbers
TupleLess(a, b) == a[1] < b[1] \/ (a[1] = b[1] /\ a[2] < b[2])

RemoveAt(s, i) == SubSeq(s, 1, i - 1) \o SubSeq(s, i + 1, Len(s))

RECURSIVE SortedReverse(_)
\* sorted(s, reverse=True)
SortedReverse(s) ==
    IF s = << >> THEN << >>
    ELSE LET i == CHOOSE k \in 1..Len(s) : \A j \in 1..Len(s) : ~TupleLess(s[k], s[j])
         IN  <<s[i]>> \o SortedReverse(RemoveAt(s, i))

RECURSIVE special_offer_loop_inclusive(_, _, _)
\* variant: a tier applies from its threshold on (>= for >)
special_offer_loop_inclusive(cost, tiers, i) ==
    IF i > Len(tiers) THEN 0
    ELSE IF cost >= tiers[i][1] THEN tiers[i][2]
    ELSE special_offer_loop_inclusive(cost, tiers, i + 1)

RECURSIVE special_offer_loop(_, _, _)
\* the for loop of calculate_special_offer_discount with its break
special_offer_loop(cost, tiers, i) ==
    IF i > Len(tiers) THEN 0
    ELSE IF cost > tiers[i][1] THEN tiers[i][2]
    ELSE special_offer_loop(cost, tiers, i + 1)

\* variant: the discounts of all exceeded tiers add up (no break)
calculate_special_offer_discount_cumulative(cost) ==
    LET tiers == SortedReverse(SPECIAL_OFFER_DISCOUNTS)
        discount_amount == (IF cost > tiers[1][1] THEN tiers[1][2] ELSE 0)
                           + (IF cost > tiers[2][1] THEN tiers[2][2] ELSE 0)
        discounted_cost == cost - discount_amount
    IN  <<discounted_cost, discount_amount>>

\* variant: the tiers are tried in the order they are declared (not sorted)
calculate_special_offer_discount_lowest_first(cost) ==
    LET discount_amount == special_offer_loop(cost, SPECIAL_OFFER_DISCOUNTS, 1)
        discounted_cost == cost - discount_amount
    IN  <<discounted_cost, discount_amount>>

\* returns <<discounted_cost, discount_amount>>
calculate_special_offer_discount(cost) ==
    LET discount_amount == special_offer_loop(cost, SortedReverse(SPECIAL_OFFER_DISCOUNTS), 1)
        discounted_cost == cost - discount_amount
    IN  <<discounted_cost, discount_amount>>

\* variant: only one of the premium levels is surcharged
calculate_premium_surcharge_one_level(cost, premium_level) ==
    IF premium_level # "EXCLUSIVE_FACILITIES"
    THEN <<cost, 0>>
    ELSE LET surcharge_amount == TimesRate(cost, PREMIUM_SURCHARGE_PERCENTAGE)
             total_with_surcharge == cost + surcharge_amount
         IN  <<total_with_surcharge, surcharge_amount>>

\* variant: the rate is reported in place of the surcharge
calculate_premium_surcharge_rate_reported(cost, premium_level) ==
    IF premium_level = "NONE"
    THEN <<cost, 0>>
    ELSE LET surcharge_amount == TimesRate(cost, PREMIUM_SURCHARGE_PERCENTAGE)
             total_with_surcharge == cost + surcharge_amount
         IN  <<total_with_surcharge, PREMIUM_SURCHARGE_PERCENTAGE>>

\* returns <<total_with_surcharge, surcharge_amount>>
calculate_premium_surcharge(cost, premium_level) ==
    IF premium_level = "NONE"
    THEN <<cost, 0>>
    ELSE LET surcharge_amount == TimesRate(cost, PREMIUM_SURCHARGE_PERCENTAGE)
             total_with_surcharge == cost + surcharge_amount
         IN  <<total_with_surcharge, surcharge_amount>>

\* a dictionary lookup with a missing key raises KeyError
RaisesKeyError(plan_name, feature_names) ==
    \/ plan_name \notin DOMAIN membership_plans
    \/ \E i \in 1..Len(feature_names) : feature_names[i] \notin DOMAIN additional_features

\* variant: the special offer is looked up with the subtotal
calculate_total_cost_special_on_subtotal(plan_name, feature_names, num_members, premium_level) ==
    IF RaisesKeyError(plan_name, feature_names)
    THEN [raised |-> TRUE, exception |-> "KeyError"]
    ELSE
    LET base_cost == calculate_base_cost(plan_name)
        features_cost == calculate_features_cost(feature_names)
        subtotal == base_cost + features_cost
        group == calculate_group_discount(subtotal, num_members)
        after_group == group[1]
        group_discount == group[2]
        special == calculate_special_offer_discount(subtotal)
        after_special == after_group - special[2]
        special_discount == special[2]
        premium == calculate_premium_surcharge(after_special, premium_level)
        total_with_surcharge == premium[1]
        surcharge == premium[2]
        breakdown == [base_cost |-> base_cost,
                      features_cost |-> features_cost,
                      subtotal |-> subtotal,
                      group_discount |-> group_discount,
                      after_group_discount |-> after_group,
                      special_offer_discount |-> special_discount,
                      after_special_discount |-> after_special,
                      premium_surcharge |-> surcharge,
                      total_cost |-> total_with_surcharge]
    IN  [raised |-> FALSE, total_cost |-> total_with_surcharge, breakdown |-> breakdown]

\* variant: the surcharge is computed on the amount before the special offer
calculate_total_cost_surcharge_on_after_group(plan_name, feature_names, num_members, premium_level) ==
    IF RaisesKeyError(plan_name, feature_names)
    THEN [raised |-> TRUE, exception |-> "KeyError"]
    ELSE
    LET base_cost == calculate_base_cost(plan_name)
        features_cost == calculate_features_cost(feature_names)
        subtotal == base_cost + features_cost
        group == calculate_group_discount(subtotal, num_members)
        after_group == group[1]
        group_discount == group[2]
        special == calculate_special_offer_discount(after_group)
        after_special == special[1]
        special_discount == special[2]
        premium == calculate_premium_surcharge(after_group, premium_level)
        total_with_surcharge == after_special + premium[2]
        surcharge == premium[2]
        breakdown == [base_cost |-> base_cost,
                      features_cost |-> features_cost,
                      subtotal |-> subtotal,
                      group_discount |-> group_discount,
                      after_group_discount |-> after_group,
                      special_offer_discount |-> special_discount,
                      after_special_discount |-> after_special,
                      premium_surcharge |-> surcharge,
                      total_cost |-> total_with_surcharge]
    IN  [raised |-> FALSE, total_cost |-> total_with_surcharge, breakdown |-> breakdown]

\* variant: the plan's flag and the member range are checked again
calculate_total_cost_revalidating(plan_name, feature_names, num_members, premium_level) ==
    IF \/ RaisesKeyError(plan_name, feature_names)
       \/ ~membership_plans[plan_name].available
       \/ num_members \notin MinMembers..MaxMembers
    THEN [raised |-> TRUE, exception |-> "KeyError"]
    ELSE
    LET base_cost == calculate_base_cost(plan_name)
        features_cost == calculate_features_cost(feature_names)
        subtotal == base_cost + features_cost
        group == calculate_group_discount(subtotal, num_members)
        after_group == group[1]
        group_discount == group[2]
        special == calculate_special_offer_discount(after_group)
        after_special == special[1]
        special_discount == special[2]
        premium == calculate_premium_surcharge(after_special, premium_level)
        total_with_surcharge == premium[1]
        surcharge == premium[2]
        breakdown == [base_cost |-> base_cost,
                      features_cost |-> features_cost,
                      subtotal |-> subtotal,
                      group_discount |-> group_discount,
                      after_group_discount |-> after_group,
                      special_offer_discount |-> special_discount,
                      after_special_discount |-> after_special,
                      premium_surcharge |-> surcharge,
                      total_cost |-> total_with_surcharge]
    IN  [raised |-> FALSE, total_cost |-> total_with_surcharge, breakdown |-> breakdown]

calculate_total_cost(plan_name, feature_names, num_members, premium_level) ==
    IF RaisesKeyError(plan_name, feature_names)
    THEN [raised |-> TRUE, exception |-> "KeyError"]
    ELSE
    LET base_cost == calculate_base_cost(plan_name)
        features_cost == calculate_features_cost(feature_names)
        subtotal == base_cost + features_cost
        group == calculate_group_discount(subtotal, num_members)
        after_group == group[1]
        group_discount == group[2]
        special == calculate_special_offer_discount(after_group)
        after_special == special[1]
        special_discount == special[2]
        premium == calculate_premium_surcharge(after_special, premium_level)
        total_with_surcharge == premium[1]
        surcharge == premium[2]
        breakdown == [base_cost |-> base_cost,
                      features_cost |-> features_cost,
                      subtotal |-> subtotal,
                      group_discount |-> group_discount,
                      after_group_discount |-> after_group,
                      special_offer_discount |-> special_discount,
                      after_special_discount |-> after_special,
                      premium_surcharge |-> surcharge,
                      total_cost |-> total_with_surcharge]
    IN  [raised |-> FALSE, total_cost |-> total_with_surcharge, breakdown |-> breakdown]

-----------------------------------------------------------------------------
(* The calculators applied to one drawn input *)

\* amounts passed to the stage calculators: whole cents around round amounts
CostInputs ==
    {a \in {Dollars(d, 0) + c * Dollars(0, 1) :
                d \in {0, 100, 200, 300, 400, 500}, c \in -CentWindow..CentWindow} : a >= 0}

MembersInputs == -1..MaxMembersInput

InitCalc ==
    /\ membership_plans = MEMBERSHIP_PLANS
    /\ additional_features = ADDITIONAL_FEATURES
    /\ ret = NoRet
    /\ app = NoApp
    /\ \/ \E feature_names \in FeatureListInputs :
             call = [op |-> "calculate_features_cost", feature_names |-> feature_names]
       \/ \E base_total \in CostInputs, num_members \in MembersInputs :
             call = [op |-> "calculate_group_discount", base_total |-> base_total,
                     num_members |-> num_members]
       \/ \E cost \in CostInputs :
             call = [op |-> "calculate_special_offer_discount", cost |-> cost]
       \/ \E cost \in CostInputs, premium_level \in PremiumFeatureLevel :
             call = [op |-> "calculate_premium_surcharge", cost |-> cost,
                     premium_level |-> premium_level]
       \/ \E plan_name \in PlanNames \cup {"InvalidPlan"}, feature_names \in FeatureListInputs,
             num_members \in MembersInputs, premium_level \in PremiumFeatureLevel :
             call = [op |-> "calculate_total_cost", plan_name |-> plan_name,
                     feature_names |-> feature_names, num_members |-> num_members,
                     premium_level |-> premium_level]

Returned(op) == call.op = op /\ ret # NoRet

CalculateFeaturesCost ==
    /\ call.op = "calculate_features_cost" /\ ret = NoRet
    /\ ret' = IF RaisesKeyError("Basic", call.feature_names)
              THEN [raised |-> TRUE, exception |-> "KeyError"]
              ELSE [raised |-> FALSE, value |-> calculate_features_cost(call.feature_names)]
    /\ UNCHANGED <<membership_plans, additional_features, call, app>>

CalculateGroupDiscount ==
    /\ call.op = "calculate_group_discount" /\ ret = NoRet
    /\ ret' = [raised |-> FALSE,
               value |-> calculate_group_discount(call.base_total, call.num_members)]
    /\ UNCHANGED <<membership_plans, additional_features, call, app>>

CalculateSpecialOfferDiscount ==
    /\ call.op = "calculate_special_offer_discount" /\ ret = NoRet
    /\ ret' = [raised |-> FALSE, value |-> calculate_special_offer_discount(call.cost)]
    /\ UNCHANGED <<membership_plans, additional_features, call, app>>

CalculatePremiumSurcharge ==
    /\ call.op = "calculate_premium_surcharge" /\ ret = NoRet
    /\ ret' = [raised |-> FALSE,
               value |-> calculate_premium_surcharge(call.cost, call.premium_level)]
    /\ UNCHANGED <<membership_plans, additional_features, call, app>>

CalculateTotalCost ==
    /\ call.op = "calculate_total_cost" /\ ret = NoRet
    /\ ret' = calculate_total_cost(call.plan_name, call.feature_names,
                                   call.num_members, call.premium_level)
    /\ UNCHANGED <<membership_plans, additional_features, call, app>>

NextCalc ==
    \/ CalculateFeaturesCost
    \/ CalculateGroupDiscount
    \/ CalculateSpecialOfferDiscount
    \/ CalculatePremiumSurcharge
    \/ CalculateTotalCost

SpecCalc == InitCalc /\ [][NextCalc]_vars

-----------------------------------------------------------------------------
(* calculate_total_cost applied to one drawn input with a long feature list *)

MaxAddOns == 8

Repeat(name, k) == [i \in 1..k |-> name]

\* the lists of at most MaxAddOns catalog names, repeats allowed, one list
\* per choice of how often each name occurs (calculate_features_cost adds
\* the costs up, so the order of a list does not reach the price)
AddOnLists ==
    {Repeat(FeatureOrder[1], a) \o Repeat(FeatureOrder[2], b) \o Repeat(FeatureOrder[3], c) :
        <<a, b, c>> \in {t \in (0..MaxAddOns) \X (0..MaxAddOns) \X (0..MaxAddOns) :
                            t[1] + t[2] + t[3] <= MaxAddOns}}

InitAddOns ==
    /\ membership_plans = MEMBERSHIP_PLANS
    /\ additional_features = ADDITIONAL_FEATURES
    /\ ret = NoRet
    /\ app = NoApp
    /\ \E plan_name \in PlanNames, feature_names \in AddOnLists,
          num_members \in MembersInputs, premium_level \in PremiumFeatureLevel :
          call = [op |-> "calculate_total_cost", plan_name |-> plan_name,
                  feature_names |-> feature_names, num_members |-> num_members,
                  premium_level |-> premium_level]

NextAddOns == CalculateTotalCost

SpecAddOns == InitAddOns /\ [][NextAddOns]_vars

\* no share computed by TimesRate is truncated
ExactArithmetic ==
    /\ Returned("calculate_group_discount") =>
           ret.value[2] * PercentBase \in {0, call.base_total * GROUP_DISCOUNT_PERCENTAGE}
    /\ Returned("calculate_premium_surcharge") =>
           ret.value[2] * PercentBase \in {0, call.cost * PREMIUM_SURCHARGE_PERCENTAGE}
    /\ (Returned("calculate_total_cost") /\ ~ret.raised) =>
           /\ ret.breakdown.group_discount * PercentBase
                  \in {0, ret.breakdown.subtotal * GROUP_DISCOUNT_PERCENTAGE}
           /\ ret.breakdown.premium_surcharge * PercentBase
                  \in {0, ret.breakdown.after_special_discount * PREMIUM_SURCHARGE_PERCENTAGE}

-----------------------------------------------------------------------------
(* Summary *)

\* a line of the summary: its text, then the number printed after it, if any
Line(text, value) == [text |-> text, value |-> value]

\* what :.2f prints of an amount, in cents (nearest cent, a tie to the even one)
Format2f(amount) ==
    LET unit == Scale \div 100
        q == amount \div unit
        r == amount % unit
    IN  IF 2 * r > unit \/ (2 * r = unit /\ q % 2 = 1) THEN q + 1 ELSE q

\* PremiumFeatureLevel.<level>.value
PremiumLevelValue(premium_level) ==
    CASE premium_level = "NONE" -> "None"
      [] premium_level = "EXCLUSIVE_FACILITIES" -> "Exclusive Facilities"
      [] premium_level = "SPECIALIZED_TRAINING" -> "Specialized Training"

RuleEquals == "============================================================"
RuleDashes == "------------------------------------------------------------"

\* variant: the two lines are shown whenever a discount is defined
group_discount_lines_always(breakdown) ==
    IF breakdown.group_discount >= 0
    THEN <<Line("Group Discount (10%):       -$", Some(Format2f(breakdown.group_discount))),
           Line("After Group Discount:        $",
                Some(Format2f(breakdown.after_group_discount)))>>
    ELSE << >>

\* if breakdown['group_discount'] > 0: two lines
group_discount_lines(breakdown) ==
    IF breakdown.group_discount > 0
    THEN <<Line("Group Discount (10%):       -$", Some(Format2f(breakdown.group_discount))),
           Line("After Group Discount:        $",
                Some(Format2f(breakdown.after_group_discount)))>>
    ELSE << >>

\* the lines get_summary appends for a breakdown, joined by "\n" in the source
summary_lines(plan_name, feature_names, num_members, premium_level, breakdown) ==
    <<Line("\n" \o RuleEquals, None),
      Line("                     MEMBERSHIP SUMMARY                     ", None),
      Line(RuleEquals, None),
      Line("\nMembership Plan: " \o plan_name, None),
      Line("Number of Members: ", Some(num_members))>>
    \o (IF feature_names # << >>
        THEN <<Line("Additional Features:", None)>>
             \o [i \in 1..Len(feature_names) |->
                    Line("  - " \o feature_names[i] \o ": $",
                         Some(Format2f(additional_features[feature_names[i]].cost)))]
        ELSE <<Line("Additional Features: None", None)>>)
    \o (IF premium_level # "NONE"
        THEN <<Line("Premium Level: " \o PremiumLevelValue(premium_level), None)>>
        ELSE << >>)
    \o <<Line("\n" \o RuleDashes, None),
         Line("                       COST BREAKDOWN                       ", None),
         Line(RuleDashes, None),
         Line("Base Membership Cost:        $", Some(Format2f(breakdown.base_cost)))>>
    \o (IF breakdown.features_cost > 0
        THEN <<Line("Additional Features Cost:    $", Some(Format2f(breakdown.features_cost))),
               Line("Subtotal:                    $", Some(Format2f(breakdown.subtotal)))>>
        ELSE << >>)
    \o group_discount_lines(breakdown)
    \o (IF breakdown.special_offer_discount > 0
        THEN <<Line("Special Offer Discount:     -$",
                    Some(Format2f(breakdown.special_offer_discount))),
               Line("After Special Discount:      $",
                    Some(Format2f(breakdown.after_special_discount)))>>
        ELSE << >>)
    \o (IF breakdown.premium_surcharge > 0
        THEN <<Line("Premium Surcharge (15%):     $", Some(Format2f(breakdown.premium_surcharge)))>>
        ELSE << >>)
    \o <<Line(RuleDashes, None),
         Line("TOTAL COST:                  $", Some(Format2f(breakdown.total_cost))),
         Line(RuleEquals \o "\n", None)>>

get_summary(plan_name, feature_names, num_members, premium_level) ==
    LET result == calculate_total_cost(plan_name, feature_names, num_members, premium_level)
    IN  IF result.raised THEN result
        ELSE [raised |-> FALSE,
              value |-> summary_lines(plan_name, feature_names, num_members, premium_level,
                                      result.breakdown)]

-----------------------------------------------------------------------------
(* The summary of one drawn selection *)

InitSummary ==
    /\ membership_plans = MEMBERSHIP_PLANS
    /\ additional_features = ADDITIONAL_FEATURES
    /\ ret = NoRet
    /\ app = NoApp
    /\ \E plan_name \in PlanNames \cup {"InvalidPlan"}, feature_names \in FeatureListInputs,
          num_members \in MembersInputs, premium_level \in PremiumFeatureLevel :
          call = [op |-> "get_summary", plan_name |-> plan_name,
                  feature_names |-> feature_names, num_members |-> num_members,
                  premium_level |-> premium_level]

GetSummary ==
    /\ call.op = "get_summary" /\ ret = NoRet
    /\ ret' = get_summary(call.plan_name, call.feature_names,
                          call.num_members, call.premium_level)
    /\ UNCHANGED <<membership_plans, additional_features, call, app>>

NextSummary == GetSummary

SpecSummary == InitSummary /\ [][NextSummary]_vars

-----------------------------------------------------------------------------
(* Any sequence of engine operations, with availability flags set in between *)

MaxEngineFeatures == 1

EngineFeatureLists == SeqsUpTo(FeatureNameInputs, MaxEngineFeatures)
EngineMembersInputs ==
    {MinMembers - 1, MinMembers, GROUP_DISCOUNT_THRESHOLD, MaxMembers, MaxMembers + 1}
EngineCostInputs == {Dollars(150, 0), Dollars(450, 0)}

\* the calls a caller of the engine can make
EngineCalls ==
    [op : {"validate_membership_plan"}, plan_name : PlanNameInputs]
    \cup [op : {"validate_features"}, feature_names : FeatureArgInputs]
    \cup [op : {"validate_num_members"}, num_members : NumMembersInputs]
    \cup [op : {"get_available_membership_plans", "get_available_features"}]
    \cup [op : {"calculate_features_cost"}, feature_names : EngineFeatureLists]
    \cup [op : {"calculate_group_discount"}, base_total : EngineCostInputs,
          num_members : EngineMembersInputs]
    \cup [op : {"calculate_special_offer_discount"}, cost : EngineCostInputs]
    \cup [op : {"calculate_premium_surcharge"}, cost : EngineCostInputs,
          premium_level : PremiumFeatureLevel]
    \cup [op : {"calculate_total_cost", "get_summary"},
          plan_name : PlanNames \cup {"InvalidPlan"}, feature_names : EngineFeatureLists,
          num_members : EngineMembersInputs, premium_level : PremiumFeatureLevel]

\* the caller enters an operation of the engine
CallEngine ==
    /\ call = NoCall
    /\ call' \in EngineCalls
    /\ ret' = NoRet
    /\ UNCHANGED <<membership_plans, additional_features, app>>

\* the caller has its result and is free to call again
ReturnToCaller ==
    /\ call # NoCall /\ ret # NoRet
    /\ call' = NoCall
    /\ ret' = NoRet
    /\ UNCHANGED <<membership_plans, additional_features, app>>

\* mutant of SetPlanAvailable: the assignment drops the entry's price
SetPlanAvailable_dropping_cost ==
    /\ \E p \in DOMAIN membership_plans, flag \in BOOLEAN :
          /\ membership_plans[p].available # flag
          /\ membership_plans' =
                 [membership_plans EXCEPT ![p] = [name |-> @.name, base_cost |-> 0,
                                                   available |-> flag]]
    /\ UNCHANGED <<additional_features, call, ret, app>>

\* manager.membership_plans[p].available = flag, while the caller is anywhere
SetPlanAvailable ==
    /\ \E p \in DOMAIN membership_plans, flag \in BOOLEAN :
          /\ membership_plans[p].available # flag
          /\ membership_plans' = [membership_plans EXCEPT ![p].available = flag]
    /\ UNCHANGED <<additional_features, call, ret, app>>

\* manager.additional_features[f].available = flag, while the caller is anywhere
SetFeatureAvailable ==
    /\ \E f \in DOMAIN additional_features, flag \in BOOLEAN :
          /\ additional_features[f].available # flag
          /\ additional_features' = [additional_features EXCEPT ![f].available = flag]
    /\ UNCHANGED <<membership_plans, call, ret, app>>

EngineValidateMembershipPlan ==
    /\ call.op = "validate_membership_plan" /\ ret = NoRet
    /\ ret' = validate_membership_plan(call.plan_name)
    /\ UNCHANGED <<membership_plans, additional_features, call, app>>

EngineValidateFeatures ==
    /\ call.op = "validate_features" /\ ret = NoRet
    /\ ret' = validate_features(call.feature_names)
    /\ UNCHANGED <<membership_plans, additional_features, call, app>>

EngineValidateNumMembers ==
    /\ call.op = "validate_num_members" /\ ret = NoRet
    /\ ret' = validate_num_members(call.num_members)
    /\ UNCHANGED <<membership_plans, additional_features, call, app>>

GetAvailableMembershipPlans ==
    /\ call.op = "get_available_membership_plans" /\ ret = NoRet
    /\ ret' = [raised |-> FALSE, value |-> get_available_membership_plans]
    /\ UNCHANGED <<membership_plans, additional_features, call, app>>

GetAvailableFeatures ==
    /\ call.op = "get_available_features" /\ ret = NoRet
    /\ ret' = [raised |-> FALSE, value |-> get_available_features]
    /\ UNCHANGED <<membership_plans, additional_features, call, app>>

NextEngine ==
    \/ CallEngine
    \/ ReturnToCaller
    \/ SetPlanAvailable
    \/ SetFeatureAvailable
    \/ EngineValidateMembershipPlan
    \/ EngineValidateFeatures
    \/ EngineValidateNumMembers
    \/ GetAvailableMembershipPlans
    \/ GetAvailableFeatures
    \/ CalculateFeaturesCost
    \/ CalculateGroupDiscount
    \/ CalculateSpecialOfferDiscount
    \/ CalculatePremiumSurcharge
    \/ CalculateTotalCost
    \/ GetSummary

SpecEngine == Init /\ [][NextEngine]_vars

-----------------------------------------------------------------------------
(* Two managers *)

\* The variables membership_plans and additional_features hold the
\* MembershipPlan and AdditionalFeature objects the class-level dictionaries
\* were built with, each object known by its key.

Managers == {"A", "B"}

\* dict.copy(): a new dictionary, whose values are the objects of the old one
dict_copy(d) == [k \in DOMAIN d |-> k]

\* self.membership_plans and self.additional_features of manager m
manager_membership_plans(m) == dict_copy(MEMBERSHIP_PLANS)
manager_additional_features(m) == dict_copy(ADDITIONAL_FEATURES)

\* m.membership_plans[p].available = flag
ManagerSetPlanAvailable(m) ==
    /\ \E p \in DOMAIN manager_membership_plans(m), flag \in BOOLEAN :
          /\ membership_plans' =
                 [membership_plans EXCEPT ![manager_membership_plans(m)[p]].available = flag]
          /\ call' = [op |-> "set_plan_available", manager |-> m, name |-> p, flag |-> flag]
    /\ ret' = NoRet
    /\ UNCHANGED <<additional_features, app>>

\* m.additional_features[f].available = flag
ManagerSetFeatureAvailable(m) ==
    /\ \E f \in DOMAIN manager_additional_features(m), flag \in BOOLEAN :
          /\ additional_features' =
                 [additional_features EXCEPT ![manager_additional_features(m)[f]].available = flag]
          /\ call' = [op |-> "set_feature_available", manager |-> m, name |-> f, flag |-> flag]
    /\ ret' = NoRet
    /\ UNCHANGED <<membership_plans, app>>

\* m.validate_membership_plan(plan_name): m's dictionary leads to the objects
\* in membership_plans
ManagerValidateMembershipPlan(m) ==
    /\ \E plan_name \in PlanNameInputs :
          /\ call' = [op |-> "validate_membership_plan", manager |-> m, plan_name |-> plan_name]
          /\ ret' = validate_membership_plan(plan_name)
    /\ UNCHANGED <<membership_plans, additional_features, app>>

ManagerValidateFeatures(m) ==
    /\ \E feature_names \in FeatureArgInputs :
          /\ call' = [op |-> "validate_features", manager |-> m,
                      feature_names |-> feature_names]
          /\ ret' = validate_features(feature_names)
    /\ UNCHANGED <<membership_plans, additional_features, app>>

ManagerGetAvailableMembershipPlans(m) ==
    /\ call' = [op |-> "get_available_membership_plans", manager |-> m]
    /\ ret' = [raised |-> FALSE, value |-> get_available_membership_plans]
    /\ UNCHANGED <<membership_plans, additional_features, app>>

ManagerGetAvailableFeatures(m) ==
    /\ call' = [op |-> "get_available_features", manager |-> m]
    /\ ret' = [raised |-> FALSE, value |-> get_available_features]
    /\ UNCHANGED <<membership_plans, additional_features, app>>

NextInstances ==
    \E m \in Managers :
        \/ ManagerSetPlanAvailable(m)
        \/ ManagerSetFeatureAvailable(m)
        \/ ManagerValidateMembershipPlan(m)
        \/ ManagerValidateFeatures(m)
        \/ ManagerGetAvailableMembershipPlans(m)
        \/ ManagerGetAvailableFeatures(m)

SpecInstances == Init /\ [][NextInstances]_vars

-----------------------------------------------------------------------------
(* Strings typed by the user *)

UpperCase == "ABCDEFGHIJKLMNOPQRSTUVWXYZ"
LowerCase == "abcdefghijklmnopqrstuvwxyz"
Digits == "0123456789"

\* the 1-based position of the character c in s, 0 if it is not there
IndexIn(s, c) ==
    IF \E i \in 1..Len(s) : SubSeq(s, i, i) = c
    THEN CHOOSE i \in 1..Len(s) : SubSeq(s, i, i) = c
    ELSE 0

RECURSIVE Lower(_)
\* str.lower()
Lower(s) ==
    IF Len(s) = 0 THEN s
    ELSE LET c == SubSeq(s, 1, 1)
             k == IndexIn(UpperCase, c)
         IN  (IF k = 0 THEN c ELSE SubSeq(LowerCase, k, k)) \o Lower(SubSeq(s, 2, Len(s)))

RECURSIVE Strip(_)
\* str.strip()
Strip(s) ==
    IF Len(s) = 0 THEN s
    ELSE IF SubSeq(s, 1, 1) = " " THEN Strip(SubSeq(s, 2, Len(s)))
    ELSE IF SubSeq(s, Len(s), Len(s)) = " " THEN Strip(SubSeq(s, 1, Len(s) - 1))
    ELSE s

\* str.isdigit()
IsDigit(s) == Len(s) > 0 /\ \A i \in 1..Len(s) : IndexIn(Digits, SubSeq(s, i, i)) # 0

RECURSIVE ParseInt(_)
\* int(s) of a string of digits
ParseInt(s) ==
    IF Len(s) = 0 THEN 0
    ELSE ParseInt(SubSeq(s, 1, Len(s) - 1)) * 10
         + (IndexIn(Digits, SubSeq(s, Len(s), Len(s))) - 1)

\* variant: the nearest integer
IntOfFloat_nearest(amount) ==
    IF amount >= 0 THEN (amount + Scale \div 2) \div Scale
    ELSE -((-amount + Scale \div 2) \div Scale)

\* int(x) of a float amount: the fraction is cut off, toward zero
IntOfFloat(amount) ==
    IF amount >= 0 THEN amount \div Scale ELSE -((-amount) \div Scale)

\* [x.name for x in xs]
NamesOf(xs) == [i \in 1..Len(xs) |-> xs[i].name]

\* x in xs, for a list xs
InList(x, xs) == \E i \in 1..Len(xs) : xs[i] = x

\* xs.remove(x): the first occurrence goes
ListRemove(xs, x) ==
    LET k == CHOOSE i \in 1..Len(xs) : xs[i] = x /\ \A j \in 1..(i - 1) : xs[j] # x
    IN  RemoveAt(xs, k)

-----------------------------------------------------------------------------
(* GymMembershipApp.run(), one step per prompt and per call of the manager,
   while another actor sets availability flags *)

PlanUserInputs == {"cancel", "CANCEL", "0", "1", " 2 ", "Family", "family"}
MembersUserInputs == {"cancel", "0", "1", "2", "11", "two"}
FeatureUserInputs == {"done", "cancel", "1", "2", "3", "4", "Group Classes"}
PremiumUserInputs == {"none", "0", "1", "2", "3", "4", "cancel"}
ConfirmUserInputs == {"yes", "Y", "no", "n", "cancel"}

\* everything typed at some prompt
UserInputs ==
    PlanUserInputs \cup MembersUserInputs \cup FeatureUserInputs \cup PremiumUserInputs
    \cup ConfirmUserInputs

\* for each typed string: typed.strip(), typed.strip().lower(), and of the
\* stripped string isdigit() and, for digits, int(); computed once
Read ==
    [typed \in UserInputs |->
        LET stripped == Strip(typed)
        IN  [strip |-> stripped,
             lower |-> Lower(stripped),
             isdigit |-> IsDigit(stripped),
             int |-> IF IsDigit(stripped) THEN ParseInt(stripped) ELSE 0]]

\* the nested calls of run() the interpreter allows before RecursionError
\* (sys.getrecursionlimit() frames in Python, scaled down)
RecursionLimit == 1

\* the locals of one pass of run(), none assigned yet; serialized tells
\* whether the other actor takes turns with the validated part of a pass
NewApp(serialized) ==
    [pc |-> "run",
     serialized |-> serialized,
     user_input |-> None,
     plan_names |-> None,
     plan_name |-> None,
     num_members |-> None,
     feature_names |-> None,
     selected_features |-> None,
     premium_level |-> None,
     summary |-> None,
     steps |-> << >>,          \* the steps of this pass, as they complete
     validated |-> << >>,      \* the validations that succeeded in this pass
     priced |-> << >>,         \* the calls of calculate_total_cost in this pass
     result |-> None,
     unavailable_at_return |-> FALSE,
     depth |-> 0]              \* the calls of run() below the current one

InitApp ==
    /\ membership_plans = MEMBERSHIP_PLANS
    /\ additional_features = ADDITIONAL_FEATURES
    /\ call = NoCall
    /\ ret = NoRet
    /\ app \in {NewApp(serialized) : serialized \in BOOLEAN}

\* return -1
Cancelled(user_input) ==
    [app EXCEPT !.pc = "returned", !.user_input = Some(user_input), !.result = Some(-1)]

Validated(op, arg) == [op |-> op, arg |-> arg]

Priced(by, plan_name, feature_names, num_members, premium_level) ==
    [by |-> by, plan_name |-> plan_name, feature_names |-> feature_names,
     num_members |-> num_members, premium_level |-> premium_level]

\* run() is entered: display_welcome()
Run ==
    /\ app.pc = "run"
    /\ app' = [app EXCEPT !.pc = "list_plans"]
    /\ UNCHANGED <<membership_plans, additional_features, call, ret>>

\* select_membership_plan(): the plans are displayed and their names kept
\* variant: every plan of the catalog is offered
SelectMembershipPlanList_whole_catalog ==
    /\ app.pc = "list_plans"
    /\ app' = [app EXCEPT !.pc = "input_plan", !.plan_names = Some(PlanOrder)]
    /\ UNCHANGED <<membership_plans, additional_features, call, ret>>

SelectMembershipPlanList ==
    /\ app.pc = "list_plans"
    /\ app' = [app EXCEPT !.pc = "input_plan",
                          !.plan_names = Some(NamesOf(get_available_membership_plans))]
    /\ UNCHANGED <<membership_plans, additional_features, call, ret>>

\* select_membership_plan(): one turn of the while loop
SelectMembershipPlanInput ==
    /\ app.pc = "input_plan"
    /\ \E typed \in PlanUserInputs :
          LET user_input == Read[typed].strip
              plan_names == app.plan_names[1]
              index == Read[typed].int - 1
              chosen(name) == [app EXCEPT !.pc = "validate_plan",
                                          !.user_input = Some(typed),
                                          !.plan_names = None,
                                          !.plan_name = Some(name),
                                          !.steps = Append(@, "select_membership_plan")]
          IN  app' = IF Read[typed].lower = "cancel" THEN Cancelled(typed)
                     ELSE IF Read[typed].isdigit
                     THEN IF 0 <= index /\ index < Len(plan_names)
                          THEN chosen(plan_names[index + 1])
                          ELSE [app EXCEPT !.user_input = Some(typed)]
                     ELSE IF InList(user_input, plan_names) THEN chosen(user_input)
                     ELSE [app EXCEPT !.user_input = Some(typed)]
    /\ UNCHANGED <<membership_plans, additional_features, call, ret>>

\* run(): validate_membership_plan(plan_name), -1 if it fails
RunValidateMembershipPlan ==
    /\ app.pc = "validate_plan"
    /\ LET result == validate_membership_plan(app.plan_name[1])
       IN  app' = IF ~result.is_valid
                  THEN [app EXCEPT !.pc = "returned", !.user_input = None,
                                   !.result = Some(-1)]
                  ELSE [app EXCEPT !.pc = "input_members", !.user_input = None,
                                   !.validated = Append(@, Validated("validate_membership_plan",
                                                                     app.plan_name[1]))]
    /\ UNCHANGED <<membership_plans, additional_features, call, ret>>

\* select_num_members(): one turn of the while loop
SelectNumMembersInput ==
    /\ app.pc = "input_members"
    /\ \E typed \in MembersUserInputs :
          LET num_members == Read[typed].int
              result == validate_num_members([type |-> "int", val |-> num_members])
          IN  app' = IF Read[typed].lower = "cancel" THEN Cancelled(typed)
                     ELSE IF Read[typed].isdigit /\ result.is_valid
                     THEN [app EXCEPT !.pc = "list_features",
                                      !.user_input = Some(typed),
                                      !.num_members = Some(num_members),
                                      !.validated = Append(@, Validated("validate_num_members",
                                                                        num_members)),
                                      !.steps = Append(@, "select_num_members")]
                     ELSE [app EXCEPT !.user_input = Some(typed)]
    /\ UNCHANGED <<membership_plans, additional_features, call, ret>>

\* variant: every feature of the catalog is offered, available or not
SelectAdditionalFeaturesList_whole_catalog ==
    /\ app.pc = "list_features"
    /\ app' = [app EXCEPT !.pc = "input_features",
                          !.user_input = None,
                          !.feature_names = Some(FeatureOrder),
                          !.selected_features = Some(<< >>)]
    /\ UNCHANGED <<membership_plans, additional_features, call, ret>>

\* select_additional_features(): the features are displayed, their names kept
SelectAdditionalFeaturesList ==
    /\ app.pc = "list_features"
    /\ app' = [app EXCEPT !.pc = "input_features",
                          !.user_input = None,
                          !.feature_names = Some(NamesOf(get_available_features)),
                          !.selected_features = Some(<< >>)]
    /\ UNCHANGED <<membership_plans, additional_features, call, ret>>

\* select_additional_features(): one turn of the while loop
SelectAdditionalFeaturesInput ==
    /\ app.pc = "input_features"
    /\ \E typed \in FeatureUserInputs :
          LET user_input == Read[typed].lower
              feature_names == app.feature_names[1]
              selected_features == app.selected_features[1]
              index == Read[typed].int - 1
              toggled(feature_name) ==
                  [app EXCEPT !.user_input = Some(typed),
                              !.selected_features =
                                  Some(IF InList(feature_name, selected_features)
                                       THEN ListRemove(selected_features, feature_name)
                                       ELSE Append(selected_features, feature_name))]
          IN  app' = IF user_input = "done"
                     THEN [app EXCEPT !.pc = "validate_features",
                                      !.user_input = Some(typed),
                                      !.feature_names = None,
                                      !.steps = Append(@, "select_additional_features")]
                     ELSE IF user_input = "cancel" THEN Cancelled(typed)
                     ELSE IF Read[typed].isdigit
                     THEN IF 0 <= index /\ index < Len(feature_names)
                          THEN toggled(feature_names[index + 1])
                          ELSE [app EXCEPT !.user_input = Some(typed)]
                     ELSE IF InList(user_input, feature_names) THEN toggled(user_input)
                     ELSE [app EXCEPT !.user_input = Some(typed)]
    /\ UNCHANGED <<membership_plans, additional_features, call, ret>>

\* variant: the list is passed on without validate_features
RunValidateFeatures_unchecked ==
    /\ app.pc = "validate_features"
    /\ app' = [app EXCEPT !.pc = "potential_savings", !.user_input = None]
    /\ UNCHANGED <<membership_plans, additional_features, call, ret>>

\* run(): validate_features(feature_names), -1 if it fails
RunValidateFeatures ==
    /\ app.pc = "validate_features"
    /\ LET feature_names == app.selected_features[1]
           result == validate_features([type |-> "list", val |-> feature_names])
       IN  app' = IF ~result.is_valid
                  THEN [app EXCEPT !.pc = "returned", !.user_input = None,
                                   !.result = Some(-1)]
                  ELSE [app EXCEPT !.pc = "potential_savings", !.user_input = None,
                                   !.validated = Append(@, Validated("validate_features",
                                                                     feature_names))]
    /\ UNCHANGED <<membership_plans, additional_features, call, ret>>

\* variant: the savings are shown after the premium level is selected
DisplayPotentialSavings_after_premium ==
    /\ \/ /\ app.pc = "potential_savings"
          /\ app' = [app EXCEPT !.pc = "input_premium"]
       \/ /\ app.pc = "get_summary"
          /\ ~InList("display_potential_savings", app.steps)
          /\ app' = [app EXCEPT !.steps = Append(@, "display_potential_savings")]
    /\ UNCHANGED <<membership_plans, additional_features, call, ret>>

\* display_potential_savings(plan_name, num_members)
DisplayPotentialSavings ==
    /\ app.pc = "potential_savings"
    /\ LET plan_name == app.plan_name[1]
           num_members == app.num_members[1]
       IN  app' = [app EXCEPT
                       !.pc = "input_premium",
                       !.priced =
                           IF num_members >= GROUP_DISCOUNT_THRESHOLD
                           THEN @ \o <<Priced("display_potential_savings", plan_name, << >>,
                                              num_members - 1, "NONE"),
                                       Priced("display_potential_savings", plan_name, << >>,
                                              num_members, "NONE")>>
                           ELSE @,
                       !.steps = Append(@, "display_potential_savings")]
    /\ UNCHANGED <<membership_plans, additional_features, call, ret>>

\* select_premium_level(): one turn of the while loop
SelectPremiumLevelInput ==
    /\ app.pc = "input_premium"
    /\ \E typed \in PremiumUserInputs :
          LET user_input == Read[typed].lower
              chosen(premium_level) == [app EXCEPT !.pc = "get_summary",
                                                   !.user_input = Some(typed),
                                                   !.premium_level = Some(premium_level),
                                                   !.steps = Append(@, "select_premium_level")]
          IN  app' = IF user_input \in {"none", "0"} THEN chosen("NONE")
                     ELSE IF user_input = "1" THEN chosen("NONE")
                     ELSE IF user_input = "2" THEN chosen("EXCLUSIVE_FACILITIES")
                     ELSE IF user_input = "3" THEN chosen("SPECIALIZED_TRAINING")
                     ELSE [app EXCEPT !.user_input = Some(typed)]
    /\ UNCHANGED <<membership_plans, additional_features, call, ret>>

\* run(): -1 if premium_level is None, else
\* get_summary(plan_name, feature_names, num_members, premium_level)
RunGetSummary ==
    /\ app.pc = "get_summary"
    /\ LET summary == get_summary(app.plan_name[1], app.selected_features[1],
                                  app.num_members[1], app.premium_level[1])
       IN  app' = IF app.premium_level = None
                  THEN [app EXCEPT !.pc = "returned", !.user_input = None,
                                   !.result = Some(-1)]
                  ELSE IF summary.raised
                  THEN [app EXCEPT !.pc = "raised", !.user_input = None]
                  ELSE [app EXCEPT
                            !.pc = "input_confirm",
                            !.user_input = None,
                            !.summary = Some(summary.value),
                            !.priced = Append(@, Priced("get_summary", app.plan_name[1],
                                                        app.selected_features[1],
                                                        app.num_members[1],
                                                        app.premium_level[1])),
                            !.steps = Append(@, "get_summary")]
    /\ UNCHANGED <<membership_plans, additional_features, call, ret>>

\* confirm_membership(summary): one turn of the while loop; a refusal makes
\* run() return self.run(), which raises RecursionError when the stack is full
ConfirmMembershipInput ==
    /\ app.pc = "input_confirm"
    /\ \E typed \in ConfirmUserInputs :
          LET user_input == Read[typed].lower
          IN  app' = IF user_input \in {"yes", "y"}
                     THEN [app EXCEPT !.pc = "final_cost",
                                      !.user_input = Some(typed),
                                      !.steps = Append(@, "confirm_membership")]
                     ELSE IF user_input \in {"no", "n"}
                     THEN IF app.depth < RecursionLimit
                          THEN [NewApp(app.serialized) EXCEPT !.user_input = Some(typed),
                                                              !.depth = app.depth + 1]
                          ELSE [app EXCEPT !.pc = "raised", !.user_input = Some(typed)]
                     ELSE [app EXCEPT !.user_input = Some(typed)]
    /\ UNCHANGED <<membership_plans, additional_features, call, ret>>

\* variant: the final cost leaves the premium level out
RunFinalCost_without_premium ==
    /\ app.pc = "final_cost"
    /\ LET result == calculate_total_cost(app.plan_name[1], app.selected_features[1],
                                          app.num_members[1], "NONE")
       IN  app' = IF result.raised
                  THEN [app EXCEPT !.pc = "raised", !.user_input = None]
                  ELSE [app EXCEPT
                            !.pc = "returned",
                            !.user_input = None,
                            !.priced = Append(@, Priced("run", app.plan_name[1],
                                                        app.selected_features[1],
                                                        app.num_members[1],
                                                        app.premium_level[1])),
                            !.result = Some(IntOfFloat(result.total_cost)),
                            !.unavailable_at_return =
                                \/ ~membership_plans[app.plan_name[1]].available
                                \/ \E i \in 1..Len(app.selected_features[1]) :
                                      ~additional_features[app.selected_features[1][i]].available]
    /\ UNCHANGED <<membership_plans, additional_features, call, ret>>

\* run(): calculate_total_cost(...) once more, and int() of the total
RunFinalCost ==
    /\ app.pc = "final_cost"
    /\ LET result == calculate_total_cost(app.plan_name[1], app.selected_features[1],
                                          app.num_members[1], app.premium_level[1])
       IN  app' = IF result.raised
                  THEN [app EXCEPT !.pc = "raised", !.user_input = None]
                  ELSE [app EXCEPT
                            !.pc = "returned",
                            !.user_input = None,
                            !.priced = Append(@, Priced("run", app.plan_name[1],
                                                        app.selected_features[1],
                                                        app.num_members[1],
                                                        app.premium_level[1])),
                            !.result = Some(IntOfFloat(result.total_cost)),
                            !.unavailable_at_return =
                                \/ ~membership_plans[app.plan_name[1]].available
                                \/ \E i \in 1..Len(app.selected_features[1]) :
                                      ~additional_features[app.selected_features[1][i]].available]
    /\ UNCHANGED <<membership_plans, additional_features, call, ret>>

\* variant: the other actor waits only while the final cost is computed
InValidatedPart_final_cost_only ==
    app.pc \in {"final_cost"}

\* a pass between its validate_membership_plan and its return or restart
InValidatedPart ==
    app.pc \in {"input_members", "list_features", "input_features", "validate_features",
                "potential_savings", "input_premium", "get_summary", "input_confirm",
                "final_cost"}

\* the entries whose flag the other actor sets
OtherActorPlans == {"Basic"}
OtherActorFeatures == {"Personal Training"}

\* the other actor sets a plan's flag, not inside the validated part if
\* serialized
OtherSetPlanAvailable ==
    /\ ~(app.serialized /\ InValidatedPart)
    /\ \E p \in OtherActorPlans, flag \in BOOLEAN :
          /\ membership_plans[p].available # flag
          /\ membership_plans' = [membership_plans EXCEPT ![p].available = flag]
    /\ UNCHANGED <<additional_features, call, ret, app>>

\* the other actor sets a feature's flag, not inside the validated part if
\* serialized
OtherSetFeatureAvailable ==
    /\ ~(app.serialized /\ InValidatedPart)
    /\ \E f \in OtherActorFeatures, flag \in BOOLEAN :
          /\ additional_features[f].available # flag
          /\ additional_features' = [additional_features EXCEPT ![f].available = flag]
    /\ UNCHANGED <<membership_plans, call, ret, app>>

NextApp ==
    \/ Run
    \/ SelectMembershipPlanList
    \/ SelectMembershipPlanInput
    \/ RunValidateMembershipPlan
    \/ SelectNumMembersInput
    \/ SelectAdditionalFeaturesList
    \/ SelectAdditionalFeaturesInput
    \/ RunValidateFeatures
    \/ DisplayPotentialSavings
    \/ SelectPremiumLevelInput
    \/ RunGetSummary
    \/ ConfirmMembershipInput
    \/ RunFinalCost
    \/ OtherSetPlanAvailable
    \/ OtherSetFeatureAvailable

SpecApp == InitApp /\ [][NextApp]_vars

-----------------------------------------------------------------------------
(* GymMembershipApp.run() alone: flags are set before it is called, none
   during it *)

InitSolo ==
    /\ membership_plans \in
           {[p \in PlanNames |-> [MEMBERSHIP_PLANS[p] EXCEPT !.available = flags[p]]] :
                flags \in [PlanNames -> BOOLEAN]}
    /\ additional_features \in
           {[f \in FeatureNames |-> [ADDITIONAL_FEATURES[f] EXCEPT !.available = flags[f]]] :
                flags \in [FeatureNames -> BOOLEAN]}
    /\ call = NoCall
    /\ ret = NoRet
    /\ app = NewApp(TRUE)

NextSolo ==
    \/ Run
    \/ SelectMembershipPlanList
    \/ SelectMembershipPlanInput
    \/ RunValidateMembershipPlan
    \/ SelectNumMembersInput
    \/ SelectAdditionalFeaturesList
    \/ SelectAdditionalFeaturesInput
    \/ RunValidateFeatures
    \/ DisplayPotentialSavings
    \/ SelectPremiumLevelInput
    \/ RunGetSummary
    \/ ConfirmMembershipInput
    \/ RunFinalCost

SpecSolo == InitSolo /\ [][NextSolo]_vars

-----------------------------------------------------------------------------
(* Properties of the calculators *)

\* number of occurrences of name f in a list
Occurrences(feature_names, f) ==
    Cardinality({i \in 1..Len(feature_names) : feature_names[i] = f})

\* every occurrence of every catalog feature at its seed price
PricedOccurrences(feature_names) ==
    Occurrences(feature_names, "Personal Training") * Dollars(50, 0)
  + Occurrences(feature_names, "Group Classes") * Dollars(30, 0)
  + Occurrences(feature_names, "Nutritional Consulting") * Dollars(40, 0)

SeedBaseCost(plan_name) ==
    CASE plan_name = "Basic" -> Dollars(29, 99)
      [] plan_name = "Premium" -> Dollars(59, 99)
      [] plan_name = "Family" -> Dollars(99, 99)

AllCatalogNames(plan_name, feature_names) ==
    /\ plan_name \in PlanNames
    /\ \A i \in 1..Len(feature_names) : feature_names[i] \in FeatureNames

\* the special-offer step function
StepDiscount(amount) ==
    IF amount <= Dollars(200, 0) THEN 0
    ELSE IF amount <= Dollars(400, 0) THEN Dollars(20, 0)
    ELSE Dollars(50, 0)

\* C1: for catalog names, a member count in 1..10 and any premium tier,
\* calculate_total_cost returns ((subtotal * groupFactor) - specialDiscount)
\* * (1 + surchargeFactor): subtotal is base cost plus feature costs,
\* groupFactor is 0.9 from two members on and 1.0 below, specialDiscount is
\* the step discount of the amount after the group discount, and the factor
\* 1.15 (tier other than NONE) or 1 applies to the amount after it.
C1_SequentialComposition ==
    (/\ Returned("calculate_total_cost")
     /\ AllCatalogNames(call.plan_name, call.feature_names)
     /\ call.num_members \in MinMembers..MaxMembers)
    => LET subtotal == SeedBaseCost(call.plan_name) + PricedOccurrences(call.feature_names)
           tenths == IF call.num_members >= 2 THEN 9 ELSE 10
           afterGroup == (subtotal * tenths) \div 10
           specialDiscount == StepDiscount(afterGroup)
           twentieths == IF call.premium_level # "NONE" THEN 23 ELSE 20
       IN  /\ ~ret.raised
           /\ afterGroup * 10 = subtotal * tenths
           /\ ret.total_cost * 20 = (afterGroup - specialDiscount) * twentieths

C1_Witness ==
    /\ Returned("calculate_total_cost")
    /\ ~ret.raised
    /\ call.num_members = 3
    /\ call.premium_level = "SPECIALIZED_TRAINING"
    /\ ret.breakdown.subtotal > Dollars(200, 0)
    /\ ret.breakdown.group_discount > 0
    /\ ret.breakdown.special_offer_discount = Dollars(20, 0)
    /\ ret.breakdown.premium_surcharge > 0

\* C2: calculate_special_offer_discount(cost) returns a discount of 0 for
\* cost <= 200, of 20 for 200 < cost <= 400, of 50 for cost > 400 (one tier,
\* never their sum), and a discounted cost of cost minus that discount.
C2_SpecialOfferStep ==
    Returned("calculate_special_offer_discount")
    => /\ ret.value[2] = StepDiscount(call.cost)
       /\ ret.value[2] \in {0, Dollars(20, 0), Dollars(50, 0)}
       /\ ret.value[1] = call.cost - ret.value[2]
       /\ call.cost = Dollars(200, 0) => ret.value[2] = 0
       /\ call.cost = Dollars(200, 1) => ret.value[2] = Dollars(20, 0)
       /\ call.cost = Dollars(400, 0) => ret.value[2] = Dollars(20, 0)
       /\ call.cost = Dollars(400, 1) => ret.value[2] = Dollars(50, 0)

C2_Witness ==
    /\ Returned("calculate_special_offer_discount")
    /\ call.cost = Dollars(400, 0)
    /\ ret.value = <<Dollars(380, 0), Dollars(20, 0)>>

\* C3: calculate_group_discount(subtotal, n) returns discount 0 and the
\* subtotal itself for n < 2, and discount subtotal * 0.10 with amount
\* subtotal * 0.90 for n >= 2, a subtotal of 0 giving 0 and 0.
C3_GroupDiscount ==
    Returned("calculate_group_discount")
    => /\ call.num_members < 2 => ret.value = <<call.base_total, 0>>
       /\ call.num_members >= 2 =>
              /\ ret.value[2] * 10 = call.base_total
              /\ ret.value[1] * 10 = call.base_total * 9
       /\ (call.num_members >= 2 /\ call.base_total = 0) => ret.value = <<0, 0>>

C3_Witness ==
    /\ Returned("calculate_group_discount")
    /\ call.num_members = 2
    /\ call.base_total = Dollars(100, 0)
    /\ ret.value = <<Dollars(90, 0), Dollars(10, 0)>>

OtherPremiumLevel(premium_level) ==
    IF premium_level = "EXCLUSIVE_FACILITIES" THEN "SPECIALIZED_TRAINING"
    ELSE "EXCLUSIVE_FACILITIES"

\* C4: calculate_premium_surcharge(cost, tier) returns surcharge 0 and the
\* cost itself for NONE; for the other tiers the surcharge is cost * 0.15 and
\* the total cost + surcharge, the same pair for both tiers.
C4_PremiumSurcharge ==
    Returned("calculate_premium_surcharge")
    => /\ call.premium_level = "NONE" => ret.value = <<call.cost, 0>>
       /\ call.premium_level # "NONE" =>
              /\ ret.value[2] * 20 = call.cost * 3
              /\ ret.value[1] = call.cost + ret.value[2]
              /\ ret.value = calculate_premium_surcharge(call.cost,
                                 OtherPremiumLevel(call.premium_level))

C4_Witness ==
    /\ Returned("calculate_premium_surcharge")
    /\ call.premium_level = "SPECIALIZED_TRAINING"
    /\ call.cost = Dollars(200, 0)
    /\ ret.value = <<Dollars(230, 0), Dollars(30, 0)>>

IsComplexScenario ==
    /\ Returned("calculate_total_cost")
    /\ call.plan_name = "Family"
    /\ call.feature_names = <<"Personal Training", "Group Classes", "Nutritional Consulting">>
    /\ call.num_members = 2
    /\ call.premium_level = "EXCLUSIVE_FACILITIES"

\* C6: Family with Personal Training, Group Classes and Nutritional
\* Consulting, 2 members, EXCLUSIVE_FACILITIES gives subtotal 219.99, after
\* the group discount 197.991, special offer discount 0, premium surcharge
\* 29.69865 and total 227.68965 (amounts in 1/100000 dollar).
C6_ComplexScenario ==
    IsComplexScenario
    => /\ ~ret.raised
       /\ ret.breakdown.subtotal = 21999000
       /\ ret.breakdown.after_group_discount = 19799100
       /\ ret.breakdown.special_offer_discount = 0
       /\ ret.breakdown.premium_surcharge = 2969865
       /\ ret.breakdown.total_cost = 22768965
       /\ ret.total_cost = 22768965

C6_Witness ==
    /\ IsComplexScenario
    /\ ~ret.raised
    /\ ret.breakdown.subtotal > Dollars(200, 0)
    /\ ret.breakdown.after_group_discount < Dollars(200, 0)
    /\ ret.breakdown.special_offer_discount = 0

-----------------------------------------------------------------------------
(* Properties of validation *)

EndsWith(s, suffix) ==
    /\ Len(s) >= Len(suffix)
    /\ SubSeq(s, Len(s) - Len(suffix) + 1, Len(s)) = suffix

\* the failure class read off a returned (is_valid, error_msg) pair
ErrorKind(r) ==
    IF r.is_valid \/ Len(r.error_msg) # 1 THEN "none"
    ELSE LET m == r.error_msg[1]
         IN  IF EndsWith(m, "' does not exist.") THEN "NotFound"
             ELSE IF EndsWith(m, "' is currently unavailable.") THEN "Unavailable"
             ELSE IF m \in {"Features must be provided as a list.",
                            "Number of members must be an integer."} THEN "InvalidInput"
             ELSE IF m \in {"Number of members must be at least 1.",
                            "Number of members cannot exceed 10."} THEN "OutOfRange"
             ELSE "unclassified"

PlanIsOn(name) == name \in PlanNames /\ membership_plans[name].available
PlanIsOff(name) == name \in PlanNames /\ ~membership_plans[name].available
FeatureIsOn(name) == name \in FeatureNames /\ additional_features[name].available
FeatureIsOff(name) == name \in FeatureNames /\ ~additional_features[name].available

\* C7: whatever the availability flags, validate_membership_plan(name) fails
\* as NotFound iff name is not a catalog key, fails as Unavailable iff name
\* is a key whose flag is off, and succeeds otherwise.
C7_ValidatePlan ==
    Returned("validate_membership_plan")
    => /\ ErrorKind(ret) = "NotFound" <=> call.plan_name \notin PlanNames
       /\ ErrorKind(ret) = "Unavailable" <=> PlanIsOff(call.plan_name)
       /\ ret.is_valid <=> PlanIsOn(call.plan_name)

C7_Witness ==
    /\ Returned("validate_membership_plan")
    /\ call.plan_name = "Basic"
    /\ ~membership_plans["Basic"].available
    /\ membership_plans["Premium"].available
    /\ ErrorKind(ret) = "Unavailable"

IsListCall == Returned("validate_features") /\ call.feature_names.type = "list"

\* positions of the names that are not an available catalog feature
Offending(names) == {i \in 1..Len(names) : ~FeatureIsOn(names[i])}

FirstOffending(names) == CHOOSE i \in Offending(names) : \A j \in Offending(names) : i <= j

\* C8 as stated: validate_features fails as InvalidInput when the argument
\* is not a list; a list fails as NotFound if some name is not a catalog
\* key, as Unavailable if some name is a key whose flag is off, and succeeds
\* iff every name is a key with its flag on; the empty list is valid.
C8_AnyNameDecides ==
    Returned("validate_features")
    => /\ ~IsListCall => ErrorKind(ret) = "InvalidInput"
       /\ IsListCall =>
              LET names == call.feature_names.val
              IN  /\ (\E i \in 1..Len(names) : names[i] \notin FeatureNames)
                         => ErrorKind(ret) = "NotFound"
                  /\ (\E i \in 1..Len(names) : FeatureIsOff(names[i]))
                         => ErrorKind(ret) = "Unavailable"
                  /\ ret.is_valid <=> \A i \in 1..Len(names) : FeatureIsOn(names[i])
                  /\ names = << >> => ret.is_valid

\* C8 (amended): validate_features fails as InvalidInput when the argument is
\* not a list; for a list it succeeds iff every name is a key with its flag
\* on, and otherwise fails with the class of the first name in list order
\* that is not: NotFound if that name is not a key, Unavailable if its flag
\* is off.  The empty list is valid and a repeated name causes no failure.
C8_FirstNameDecides ==
    Returned("validate_features")
    => /\ ~IsListCall => ErrorKind(ret) = "InvalidInput"
       /\ IsListCall =>
              LET names == call.feature_names.val
              IN  /\ ret.is_valid <=> \A i \in 1..Len(names) : FeatureIsOn(names[i])
                  /\ Offending(names) # {} =>
                         ErrorKind(ret) = IF names[FirstOffending(names)] \notin FeatureNames
                                          THEN "NotFound" ELSE "Unavailable"
                  /\ names = << >> => ret.is_valid
                  /\ (Len(names) = 2 /\ names[1] = names[2] /\ FeatureIsOn(names[1]))
                         => ret.is_valid

C8_Witness ==
    /\ IsListCall
    /\ Len(call.feature_names.val) = 2
    /\ FeatureIsOff(call.feature_names.val[1])
    /\ call.feature_names.val[2] \notin FeatureNames
    /\ ErrorKind(ret) = "Unavailable"

\* C9: validate_num_members(n) fails as InvalidInput if n is not an integer,
\* fails as OutOfRange if n is an integer below 1 or above 10, and succeeds
\* exactly for the integers 1..10: 1 and 10 pass, 0 and 11 do not.
C9_ValidateNumMembers ==
    Returned("validate_num_members")
    => LET n == call.num_members
           isInteger == n.type \in {"int", "bool"}
       IN  /\ ~isInteger => ErrorKind(ret) = "InvalidInput"
           /\ (isInteger /\ (n.val < 1 \/ n.val > 10)) => ErrorKind(ret) = "OutOfRange"
           /\ ret.is_valid <=> (isInteger /\ n.val \in 1..10)
           /\ (n.type = "int" /\ n.val \in {1, 10}) => ret.is_valid
           /\ (n.type = "int" /\ n.val \in {0, 11}) => ~ret.is_valid

C9_Witness ==
    /\ Returned("validate_num_members")
    /\ call.num_members = [type |-> "int", val |-> 10]
    /\ ret.is_valid

ValidationReturned ==
    \/ Returned("validate_membership_plan")
    \/ Returned("validate_features")
    \/ Returned("validate_num_members")

\* the failure class the arguments and the catalog call for
ExpectedKind ==
    CASE call.op = "validate_membership_plan" ->
             IF call.plan_name \notin PlanNames THEN "NotFound"
             ELSE IF PlanIsOff(call.plan_name) THEN "Unavailable" ELSE "none"
      [] call.op = "validate_features" ->
             IF call.feature_names.type # "list" THEN "InvalidInput"
             ELSE IF Offending(call.feature_names.val) = {} THEN "none"
             ELSE IF call.feature_names.val[FirstOffending(call.feature_names.val)]
                         \notin FeatureNames THEN "NotFound"
             ELSE "Unavailable"
      [] call.op = "validate_num_members" ->
             IF call.num_members.type \notin {"int", "bool"} THEN "InvalidInput"
             ELSE IF call.num_members.val \notin 1..10 THEN "OutOfRange" ELSE "none"

-----------------------------------------------------------------------------
(* Properties of the engine as a whole *)

Clip(num_members) ==
    IF num_members < MinMembers THEN MinMembers
    ELSE IF num_members > MaxMembers THEN MaxMembers ELSE num_members

\* the breakdown of a selection priced at the seed prices, flags not consulted
SeedBreakdown(plan_name, feature_names, num_members, premium_level) ==
    LET base == SeedBaseCost(plan_name)
        features == PricedOccurrences(feature_names)
        subtotal == base + features
        tenths == IF num_members >= 2 THEN 9 ELSE 10
        afterGroup == (subtotal * tenths) \div 10
        specialDiscount == StepDiscount(afterGroup)
        afterSpecial == afterGroup - specialDiscount
        twentieths == IF premium_level # "NONE" THEN 23 ELSE 20
        total == (afterSpecial * twentieths) \div 20
    IN  [base_cost |-> base,
         features_cost |-> features,
         subtotal |-> subtotal,
         group_discount |-> subtotal - afterGroup,
         after_group_discount |-> afterGroup,
         special_offer_discount |-> specialDiscount,
         after_special_discount |-> afterSpecial,
         premium_surcharge |-> total - afterSpecial,
         total_cost |-> total]

\* C11: calculate_total_cost validates nothing again: for catalog names it
\* returns, whatever the availability flags and whatever the member count,
\* the total and breakdown of the valid selection (all flags on, the count
\* brought into 1..10); for a plan or feature name that is no catalog key it
\* raises KeyError and returns no total and no breakdown.
C11_NoRevalidation ==
    Returned("calculate_total_cost")
    => IF AllCatalogNames(call.plan_name, call.feature_names)
       THEN LET valid == SeedBreakdown(call.plan_name, call.feature_names,
                                       Clip(call.num_members), call.premium_level)
            IN  ret = [raised |-> FALSE, total_cost |-> valid.total_cost, breakdown |-> valid]
       ELSE ret = [raised |-> TRUE, exception |-> "KeyError"]

C11_Witness ==
    /\ Returned("calculate_total_cost")
    /\ PlanIsOff(call.plan_name)
    /\ Len(call.feature_names) = 1
    /\ FeatureIsOff(call.feature_names[1])
    /\ call.num_members = MaxMembers + 1
    /\ ~ret.raised
    /\ ret.breakdown.group_discount > 0

\* what the validation and listing operations of manager m return now
ResultsOn(m) ==
    [plans |-> [plan_name \in PlanNameInputs |-> validate_membership_plan(plan_name)],
     features |-> [feature_names \in FeatureArgInputs |-> validate_features(feature_names)],
     available_plans |-> get_available_membership_plans,
     available_features |-> get_available_features,
     through |-> manager_membership_plans(m)]

\* C12: a flag set through the catalog of one manager leaves what every
\* validation and listing operation of the other manager returns unchanged.
C12_InstancesDoNotInterfere ==
    [][\A m \in Managers :
           (call'.op \in {"set_plan_available", "set_feature_available"} /\ call'.manager = m)
           => \A other \in Managers \ {m} : ResultsOn(other)' = ResultsOn(other)]_vars

\* names and prices are those of the class-level dictionaries
SeedNamesAndCosts ==
    /\ DOMAIN membership_plans = DOMAIN MEMBERSHIP_PLANS
    /\ DOMAIN additional_features = DOMAIN ADDITIONAL_FEATURES
    /\ \A p \in DOMAIN MEMBERSHIP_PLANS :
          /\ DOMAIN membership_plans[p] = DOMAIN MEMBERSHIP_PLANS[p]
          /\ membership_plans[p].name = MEMBERSHIP_PLANS[p].name
          /\ membership_plans[p].base_cost = MEMBERSHIP_PLANS[p].base_cost
    /\ \A f \in DOMAIN ADDITIONAL_FEATURES :
          /\ DOMAIN additional_features[f] = DOMAIN ADDITIONAL_FEATURES[f]
          /\ additional_features[f].name = ADDITIONAL_FEATURES[f].name
          /\ additional_features[f].cost = ADDITIONAL_FEATURES[f].cost

\* the entries whose flag differs between the two states of a step
FlippedEntries ==
    {<<"plan", p>> : p \in {q \in DOMAIN membership_plans :
                               membership_plans'[q].available # membership_plans[q].available}}
    \cup {<<"feature", f>> : f \in {g \in DOMAIN additional_features :
                               additional_features'[g].available
                                   # additional_features[g].available}}

\* C13: in every state the plan names, the feature names and all prices are
\* those of initialization; a step in which the caller enters an operation or
\* an operation returns leaves both catalogs as they are; a step that sets a
\* flag changes the flag of exactly one entry.
C13_CatalogFrame ==
    /\ []SeedNamesAndCosts
    /\ [][/\ (call' # call \/ ret' # ret)
              => UNCHANGED <<membership_plans, additional_features>>
          /\ Cardinality(FlippedEntries) <= 1
          /\ (FlippedEntries = {})
              <=> UNCHANGED <<membership_plans, additional_features>>]_vars

C13_Witness ==
    /\ Returned("get_summary")
    /\ ~ret.raised
    /\ PlanIsOff("Basic") /\ PlanIsOn("Premium") /\ PlanIsOn("Family")
    /\ FeatureIsOff("Group Classes")
    /\ FeatureIsOn("Personal Training") /\ FeatureIsOn("Nutritional Consulting")
    /\ SeedNamesAndCosts

-----------------------------------------------------------------------------
(* Properties of the summary *)

HasLine(lines, text) == \E i \in 1..Len(lines) : lines[i].text = text

StartsWith(s, prefix) ==
    /\ Len(s) >= Len(prefix)
    /\ SubSeq(s, 1, Len(prefix)) = prefix

\* the labels that precede an amount of the breakdown, each with its key
AmountLabels ==
    <<<<"Base Membership Cost:        $", "base_cost">>,
      <<"Additional Features Cost:    $", "features_cost">>,
      <<"Subtotal:                    $", "subtotal">>,
      <<"Group Discount (10%):       -$", "group_discount">>,
      <<"After Group Discount:        $", "after_group_discount">>,
      <<"Special Offer Discount:     -$", "special_offer_discount">>,
      <<"After Special Discount:      $", "after_special_discount">>,
      <<"Premium Surcharge (15%):     $", "premium_surcharge">>,
      <<"TOTAL COST:                  $", "total_cost">>>>

\* C14: for catalog names, the summary has the two group-discount lines iff
\* the group discount of the selection is not 0, the two special-offer lines
\* iff its special-offer discount is not 0, the surcharge line iff its
\* surcharge is not 0, the line 'Additional Features: None' iff no feature is
\* listed, a 'Premium Level' line (with the tier's name) iff the tier is not
\* NONE; its last line before the closing rule is the total; each listed
\* feature is shown with its price; every labelled amount is, to the cent,
\* the breakdown value of the same arguments, and no label occurs twice.
C14_SummaryLines ==
    (Returned("get_summary") /\ AllCatalogNames(call.plan_name, call.feature_names))
    => /\ ~ret.raised
       /\ LET lines == ret.value
              b == SeedBreakdown(call.plan_name, call.feature_names,
                                 call.num_members, call.premium_level)
          IN  /\ HasLine(lines, "Group Discount (10%):       -$") <=> b.group_discount # 0
              /\ HasLine(lines, "After Group Discount:        $") <=> b.group_discount # 0
              /\ HasLine(lines, "Special Offer Discount:     -$")
                     <=> b.special_offer_discount # 0
              /\ HasLine(lines, "After Special Discount:      $")
                     <=> b.special_offer_discount # 0
              /\ HasLine(lines, "Premium Surcharge (15%):     $") <=> b.premium_surcharge # 0
              /\ HasLine(lines, "Additional Features: None") <=> call.feature_names = << >>
              /\ HasLine(lines, "Premium Level: " \o PremiumLevelValue(call.premium_level))
                     <=> call.premium_level # "NONE"
              /\ (\E i \in 1..Len(lines) : StartsWith(lines[i].text, "Premium Level: "))
                     <=> call.premium_level # "NONE"
              /\ \A i \in 1..Len(call.feature_names) :
                    lines[6 + i] = Line("  - " \o call.feature_names[i] \o ": $",
                                        Some(Format2f(PricedOccurrences(
                                                          <<call.feature_names[i]>>))))
              /\ lines[Len(lines) - 1].text = "TOTAL COST:                  $"
              /\ lines[Len(lines)] = Line(RuleEquals \o "\n", None)
              /\ \A k \in 1..Len(AmountLabels) :
                    /\ Cardinality({i \in 1..Len(lines) : lines[i].text = AmountLabels[k][1]}) <= 1
                    /\ \A i \in 1..Len(lines) :
                          lines[i].text = AmountLabels[k][1]
                          => lines[i].value = Some(Format2f(b[AmountLabels[k][2]]))

C14_Witness ==
    /\ Returned("get_summary")
    /\ ~ret.raised
    /\ call.plan_name = "Family"
    /\ Len(call.feature_names) = 3
    /\ call.num_members = 3
    /\ call.premium_level = "EXCLUSIVE_FACILITIES"
    /\ HasLine(ret.value, "Group Discount (10%):       -$")
    /\ HasLine(ret.value, "Special Offer Discount:     -$")
    /\ HasLine(ret.value, "Premium Surcharge (15%):     $")
    /\ HasLine(ret.value, "Premium Level: Exclusive Facilities")
    /\ ~HasLine(ret.value, "Additional Features: None")

-----------------------------------------------------------------------------
(* Properties of run() *)

Confirmed == InList("confirm_membership", app.steps)

\* the selection of the pass, priced at the seed prices
SelectionBreakdown ==
    SeedBreakdown(app.plan_name[1], app.selected_features[1],
                  app.num_members[1], app.premium_level[1])

\* C15: when run() has returned, the value is -1 if the pass was not
\* confirmed, and if it was confirmed the value is the total of
\* the selection with its fraction cut off, which is not negative and so is
\* not -1.
C15_ReturnValue ==
    app.pc = "returned"
    => /\ Len(app.result) = 1
       /\ IF Confirmed
          THEN /\ app.result[1] * Scale <= SelectionBreakdown.total_cost
               /\ SelectionBreakdown.total_cost < (app.result[1] + 1) * Scale
               /\ app.result[1] >= 0
               /\ app.result[1] # -1
          ELSE app.result[1] = -1

C15_Witness ==
    /\ app.pc = "returned"
    /\ Confirmed
    /\ app.plan_name = Some("Basic")
    /\ app.num_members = Some(1)
    /\ app.selected_features = Some(<< >>)
    /\ app.premium_level = Some("NONE")
    /\ app.result = Some(29)

\* the successful validations of the pass
HasValidated(op, arg) == InList(Validated(op, arg), app.validated)

\* C16 as claimed: every call of calculate_total_cost of a pass comes after
\* validate_membership_plan succeeded for the plan, validate_num_members for
\* the chosen member count, and validate_features for the list the call
\* prices.
C16_ValidatedBeforePriced ==
    app.pc # "run"
    => \A i \in 1..Len(app.priced) :
          /\ HasValidated("validate_membership_plan", app.priced[i].plan_name)
          /\ Len(app.num_members) = 1
          /\ HasValidated("validate_num_members", app.num_members[1])
          /\ HasValidated("validate_features", app.priced[i].feature_names)

\* C16: every call of calculate_total_cost of a pass comes after
\* validate_membership_plan succeeded for the plan, validate_num_members for
\* the chosen member count, and validate_features for the selected list;
\* get_summary and the final computation price that list and that count,
\* the two calls of display_potential_savings price the empty list, for the
\* chosen count less one and for the chosen count.
C16_SelectionValidatedBeforePriced ==
    app.pc # "run"
    => \A i \in 1..Len(app.priced) :
          /\ app.priced[i].plan_name = app.plan_name[1]
          /\ HasValidated("validate_membership_plan", app.plan_name[1])
          /\ HasValidated("validate_num_members", app.num_members[1])
          /\ HasValidated("validate_features", app.selected_features[1])
          /\ IF app.priced[i].by = "display_potential_savings"
             THEN /\ app.priced[i].feature_names = << >>
                  /\ app.priced[i].num_members = app.num_members[1] - (2 - i)
                  /\ i <= 2
             ELSE /\ app.priced[i].feature_names = app.selected_features[1]
                  /\ app.priced[i].num_members = app.num_members[1]

C16_Witness ==
    /\ app.pc = "returned"
    /\ Confirmed
    /\ Len(app.priced) = 4
    /\ app.priced[1].by = "display_potential_savings"
    /\ app.priced[1].num_members = 1
    /\ app.priced[4].by = "run"
    /\ Len(app.priced[4].feature_names) = 2
    /\ ~HasValidated("validate_features", << >>)

\* the number a summary shows after a label
Shown(lines, text) == (CHOOSE i \in 1..Len(lines) : lines[i].text = text)

\* C17: when run() has returned a confirmed cost, the final call of
\* calculate_total_cost had the arguments get_summary had for the summary
\* confirmed, and the value returned is the TOTAL COST that summary shows with
\* its cents cut off.
C17_ConfirmedCostIsSummaryTotal ==
    (app.pc = "returned" /\ Confirmed)
    => LET final == app.priced[Len(app.priced)]
           shown == app.priced[Len(app.priced) - 1]
           lines == app.summary[1]
           total == lines[Shown(lines, "TOTAL COST:                  $")].value[1]
       IN  /\ final.by = "run" /\ shown.by = "get_summary"
           /\ [final EXCEPT !.by = "get_summary"] = shown
           /\ app.result = Some(total \div 100)

C17_Witness ==
    /\ app.pc = "returned"
    /\ Confirmed
    /\ app.premium_level = Some("SPECIALIZED_TRAINING")
    /\ app.num_members = Some(2)
    /\ Len(app.selected_features[1]) = 1
    /\ HasLine(app.summary[1], "Premium Surcharge (15%):     $")
    /\ app.result[1] > 0

\* the prompts and what is typed to cancel at each
InputSteps == {"input_plan", "input_members", "input_features", "input_premium",
               "input_confirm"}

IsCancellation(pc, typed) ==
    \/ Read[typed].lower = "cancel" /\ pc # "input_confirm"
    \/ Read[typed].lower \in {"no", "n"} /\ pc = "input_confirm"

\* C18: a cancellation typed at any of the five prompts ends the pass at
\* once: run() has returned -1 or is at the beginning of a new pass.
C18_CancelAborts ==
    [][(/\ app.pc \in InputSteps
        /\ app'.user_input # None
        /\ app'.user_input # app.user_input
        /\ IsCancellation(app.pc, app'.user_input[1]))
       => \/ app'.pc = "returned" /\ app'.result = Some(-1)
          \/ app'.pc = "run"]_vars

\* C19: with the other actor kept out of a pass between its first validation
\* and its return, run() returns no price for a selection whose plan or one
\* of whose features is unavailable at the return. (Without that, it does:
\* the witness.)
C19_SerializedNoStalePrice ==
    (app.pc = "returned" /\ Confirmed /\ app.serialized)
    => ~app.unavailable_at_return

C19_Witness ==
    /\ app.pc = "returned"
    /\ Confirmed
    /\ ~app.serialized
    /\ app.result[1] >= 0
    /\ app.unavailable_at_return

StepOrder ==
    <<"select_membership_plan", "select_num_members", "select_additional_features",
      "display_potential_savings", "select_premium_level", "get_summary",
      "confirm_membership">>

\* the number of steps of StepOrder completed when run() is at pc
StepsBefore(pc) ==
    CASE pc \in {"run", "list_plans", "input_plan"} -> 0
      [] pc \in {"validate_plan", "input_members"} -> 1
      [] pc \in {"list_features", "input_features"} -> 2
      [] pc \in {"validate_features", "potential_savings"} -> 3
      [] pc = "input_premium" -> 4
      [] pc = "get_summary" -> 5
      [] pc = "input_confirm" -> 6
      [] pc = "final_cost" -> 7

\* C20: the steps a pass has completed are an initial part of: plan, member
\* count, features, potential savings, premium level, summary, confirmation;
\* the step run() is at is the next of that order; a confirmed pass has
\* completed all seven, and a pass that returned -1 stopped at the plan, the
\* member count or the features and completed nothing after it.
C20_FixedOrder ==
    /\ Len(app.steps) <= Len(StepOrder)
    /\ app.steps = SubSeq(StepOrder, 1, Len(app.steps))
    /\ app.pc \notin {"returned", "raised"} => Len(app.steps) = StepsBefore(app.pc)
    /\ app.pc = "returned" =>
          IF app.result = Some(-1) THEN Len(app.steps) <= 3
          ELSE app.steps = StepOrder

C20_Witness ==
    /\ app.pc = "final_cost"
    /\ app.steps = StepOrder
    /\ app.num_members = Some(2)
    /\ Len(app.priced) = 3

-----------------------------------------------------------------------------
(* Relations between the fields and between the results of calculate_total_cost *)

BreakdownFields ==
    {"base_cost", "features_cost", "subtotal", "group_discount", "after_group_discount",
     "special_offer_discount", "after_special_discount", "premium_surcharge", "total_cost"}

\* C21: whenever calculate_total_cost returns, the breakdown has exactly the
\* nine fields, subtotal = base_cost + features_cost, after_group_discount =
\* subtotal - group_discount, after_special_discount = after_group_discount -
\* special_offer_discount, total_cost = after_special_discount +
\* premium_surcharge, and the total returned is breakdown.total_cost.
C21_BreakdownConsistent ==
    (Returned("calculate_total_cost") /\ ~ret.raised)
    => LET b == ret.breakdown
       IN  /\ DOMAIN b = BreakdownFields
           /\ b.subtotal = b.base_cost + b.features_cost
           /\ b.after_group_discount = b.subtotal - b.group_discount
           /\ b.after_special_discount = b.after_group_discount - b.special_offer_discount
           /\ b.total_cost = b.after_special_discount + b.premium_surcharge
           /\ ret.total_cost = b.total_cost

C21_Witness ==
    /\ Returned("calculate_total_cost")
    /\ ~ret.raised
    /\ call.num_members = MaxMembers + 1
    /\ ret.breakdown.features_cost > 0
    /\ ret.breakdown.group_discount > 0
    /\ ret.breakdown.special_offer_discount = Dollars(20, 0)
    /\ ret.breakdown.premium_surcharge > 0

-----------------------------------------------------------------------------
(* Properties of run() called alone *)

Ended == app.pc \in {"returned", "raised"}

\* the step is the answer typed at the confirmation prompt, and it is a refusal
Refusal ==
    /\ app.pc = "input_confirm"
    /\ app'.user_input # None
    /\ app'.user_input # app.user_input
    /\ Read[app'.user_input[1]].lower \in {"no", "n"}

\* the step is 'cancel' typed at the plan, member-count or feature prompt
CancelTyped ==
    /\ app.pc \in {"input_plan", "input_members", "input_features"}
    /\ app'.user_input # None
    /\ Read[app'.user_input[1]].lower = "cancel"

\* C22: every refusal at the confirmation prompt puts run() at the beginning
\* of a pass with no local of the refused pass assigned, and run() ends only
\* by a step that is 'cancel' typed at the plan, member-count or feature
\* prompt, or the final computation after 'yes'; so a user who refuses
\* every time is asked again for ever.
C22_RefusalRestarts ==
    [][/\ Refusal =>
              /\ app'.pc = "run"
              /\ [app' EXCEPT !.user_input = None, !.depth = 0] = NewApp(app.serialized)
       /\ (~Ended /\ Ended') => (CancelTyped \/ app.pc = "final_cost")]_vars

\* the list after feature_name is added if absent and removed if present
Toggled(selected_features, feature_name) ==
    IF InList(feature_name, selected_features)
    THEN SelectSeq(selected_features, LAMBDA f : f # feature_name)
    ELSE Append(selected_features, feature_name)

\* C23: at the feature prompt, the list number of a displayed feature and
\* the name of a displayed feature both toggle that feature in the selection;
\* every other input except done and cancel leaves the selection as it is.
C23_NumberOrNameToggles ==
    [][(app.pc = "input_features" /\ app' # app)
       => LET typed == app'.user_input[1]
              feature_names == app.feature_names[1]
              selected_features == app.selected_features[1]
              number == Read[typed].int
          IN  \/ Read[typed].lower \in {"done", "cancel"}
              \/ /\ Read[typed].isdigit
                 /\ number \in 1..Len(feature_names)
                 /\ app'.selected_features
                        = Some(Toggled(selected_features, feature_names[number]))
              \/ /\ ~Read[typed].isdigit
                 /\ InList(Read[typed].strip, feature_names)
                 /\ app'.selected_features
                        = Some(Toggled(selected_features, Read[typed].strip))
              \/ /\ Read[typed].isdigit => number \notin 1..Len(feature_names)
                 /\ ~InList(Read[typed].strip, feature_names)
                 /\ app'.selected_features = app.selected_features]_vars

NoRepeats(xs) == \A i, j \in 1..Len(xs) : xs[i] = xs[j] => i = j

\* C24: during the feature prompt the selection has no repeated name and
\* only names displayed when the prompt began; the list handed on after done
\* has no repeated name, only features whose flag is on, and passes
\* validate_features.
C24_SelectionWellFormed ==
    /\ app.pc = "input_features"
       => /\ NoRepeats(app.selected_features[1])
          /\ \A i \in 1..Len(app.selected_features[1]) :
                InList(app.selected_features[1][i], app.feature_names[1])
    /\ app.pc = "validate_features"
       => /\ NoRepeats(app.selected_features[1])
          /\ \A i \in 1..Len(app.selected_features[1]) :
                FeatureIsOn(app.selected_features[1][i])
          /\ validate_features([type |-> "list", val |-> app.selected_features[1]])
                 = Result(TRUE, None)

C24_Witness ==
    /\ app.pc = "validate_features"
    /\ app.selected_features = Some(<<"Nutritional Consulting", "Personal Training">>)
    /\ FeatureIsOff("Group Classes")

-----------------------------------------------------------------------------
(* Validation against listing *)

\* C25: in every catalog state, for every name, validate_membership_plan
\* accepts the name iff a plan of that name is in the list
\* get_available_membership_plans returns, and validate_features accepts the
\* one-element list of the name iff a feature of that name is in the list
\* get_available_features returns; a result already returned agrees as well.
C25_ValidIffListed ==
    /\ \A name \in PlanNameInputs :
          validate_membership_plan(name).is_valid
              <=> InList(name, NamesOf(get_available_membership_plans))
    /\ \A name \in FeatureNameInputs :
          validate_features([type |-> "list", val |-> <<name>>]).is_valid
              <=> InList(name, NamesOf(get_available_features))
    /\ Returned("validate_membership_plan")
       => (ret.is_valid <=> InList(call.plan_name, NamesOf(get_available_membership_plans)))
    /\ (/\ Returned("validate_features")
        /\ call.feature_names.type = "list"
        /\ Len(call.feature_names.val) = 1)
       => (ret.is_valid
               <=> InList(call.feature_names.val[1], NamesOf(get_available_features)))

C25_Witness ==
    /\ Returned("validate_features")
    /\ call.feature_names = [type |-> "list", val |-> <<"Group Classes">>]
    /\ ~ret.is_valid
    /\ FeatureIsOff("Group Classes")
    /\ PlanIsOff("Premium")
    /\ Len(get_available_features) = 2
    /\ Len(get_available_membership_plans) = 2

-----------------------------------------------------------------------------
(* The member count in the price *)

\* C26: a breakdown returned by calculate_total_cost is the breakdown of
\* every other member count on the same side of the test
\* 'member count >= 2' (same plan, feature list and premium tier): in
\* particular one breakdown for all of 2..10, so the total does not scale
\* with the number of members.
C26_MembersOnlyThroughThreshold ==
    (Returned("calculate_total_cost") /\ ~ret.raised)
    => \A num_members \in MembersInputs :
          ((num_members >= 2) <=> (call.num_members >= 2))
          => calculate_total_cost(call.plan_name, call.feature_names,
                                  num_members, call.premium_level) = ret

C26_Witness ==
    /\ Returned("calculate_total_cost")
    /\ ~ret.raised
    /\ call.num_members = 10
    /\ call.plan_name = "Family"
    /\ Len(call.feature_names) = 2
    /\ call.premium_level # "NONE"
    /\ ret.breakdown.group_discount > 0
    /\ ret = calculate_total_cost("Family", call.feature_names, 2, call.premium_level)
    /\ ret # calculate_total_cost("Family", call.feature_names, 1, call.premium_level)

-----------------------------------------------------------------------------
(* Order relations between totals *)

\* C27: a total returned for a member count >= 2 is at most the total of
\* the same plan, feature list and premium tier for member count 1, also
\* where the 10% reduction takes the amount below a special-offer threshold.
C27_GroupNeverDearer ==
    (Returned("calculate_total_cost") /\ ~ret.raised /\ call.num_members >= 2)
    => ret.total_cost <= calculate_total_cost(call.plan_name, call.feature_names, 1,
                                              call.premium_level).total_cost

C27_Witness ==
    /\ Returned("calculate_total_cost")
    /\ ~ret.raised
    /\ call.num_members = 2
    /\ Len(call.feature_names) = MaxAddOns
    /\ ret.breakdown.special_offer_discount = Dollars(20, 0)
    /\ calculate_total_cost(call.plan_name, call.feature_names, 1, call.premium_level)
           .breakdown.special_offer_discount = Dollars(50, 0)
    /\ ret.total_cost < calculate_total_cost(call.plan_name, call.feature_names, 1,
                                             call.premium_level).total_cost

\* the call that was made, with one more feature at the end of the list
WithAddOn(feature_name) ==
    calculate_total_cost(call.plan_name, Append(call.feature_names, feature_name),
                         call.num_members, call.premium_level)

AcceptedCall ==
    /\ Returned("calculate_total_cost")
    /\ ~ret.raised
    /\ validate_features([type |-> "list", val |-> call.feature_names]).is_valid

\* C28: appending one more catalog feature to an accepted list yields a
\* total_cost greater than or equal to the total_cost without it.
C28_AddOnNeverLowers ==
    AcceptedCall
    => \A feature_name \in FeatureNames : WithAddOn(feature_name).total_cost >= ret.total_cost

\* the added feature takes the amount after the group discount over the
\* highest special-offer threshold, for a group, and costs 30
LiftsOverTopTier(feature_name) ==
    /\ call.num_members >= 2
    /\ feature_name = "Group Classes"
    /\ ret.breakdown.after_group_discount <= Dollars(400, 0)
    /\ WithAddOn(feature_name).breakdown.after_group_discount > Dollars(400, 0)

\* C28 (amended): appending one more catalog feature lowers the total_cost
\* exactly when the member count is >= 2, the feature is Group Classes and
\* the amount after the group discount goes from at most 400 to above 400;
\* the total is then lower by 3.00 without and by 3.45 with a premium tier.
\* In every other case the total_cost with the feature is greater than or
\* equal to the total_cost without it.
C28_AddOnLowersOnlyOverTopTier ==
    AcceptedCall
    => \A feature_name \in FeatureNames :
          /\ (WithAddOn(feature_name).total_cost < ret.total_cost)
                 <=> LiftsOverTopTier(feature_name)
          /\ LiftsOverTopTier(feature_name)
             => ret.total_cost - WithAddOn(feature_name).total_cost =
                    IF call.premium_level = "NONE" THEN Dollars(3, 0) ELSE Dollars(3, 45)

C28_Witness ==
    /\ AcceptedCall
    /\ call.plan_name = "Basic"
    /\ call.num_members = 2
    /\ call.premium_level = "NONE"
    /\ Len(call.feature_names) = MaxAddOns
    /\ ret.total_cost = Dollars(357, 99) + 100
    /\ WithAddOn("Group Classes").total_cost = Dollars(354, 99) + 100
    /\ WithAddOn("Personal Training").total_cost > ret.total_cost

-----------------------------------------------------------------------------
(* The -1 branches of run() called alone *)

\* run() has just returned -1
ReturnsMinusOne == app.pc # "returned" /\ app'.pc = "returned" /\ app'.result = Some(-1)

\* C29: with nothing toggling a flag during the flow, the plan handed to
\* validate_membership_plan is available, every feature handed to
\* validate_features is available, the member count is in 1..10 and the
\* premium level is not None when run() tests it, so none of the three
\* 'return -1' branches after a selection is taken: every step by which
\* run() returns -1 is 'cancel' typed at the plan, member-count or feature
\* prompt.
C29_MinusOneOnlyByCancel ==
    /\ [](/\ app.pc = "validate_plan"
             => validate_membership_plan(app.plan_name[1]).is_valid
          /\ app.pc = "validate_features"
             => validate_features([type |-> "list", val |-> app.selected_features[1]]).is_valid
          /\ app.num_members # None
             => app.num_members[1] \in MinMembers..MaxMembers
          /\ app.pc = "get_summary" => app.premium_level # None)
    /\ [][ReturnsMinusOne => CancelTyped]_vars

C29_Witness ==
    /\ app.pc = "returned"
    /\ app.result = Some(-1)
    /\ app.user_input = Some("cancel")
    /\ app.plan_name = Some("Family")
    /\ app.num_members = Some(2)
    /\ Len(app.steps) = 2
    /\ HasValidated("validate_membership_plan", "Family")
    /\ PlanIsOff("Basic")
    /\ FeatureIsOff("Group Classes")

=============================================================================
